---- MODULE Spec2Model ----
(***************************************************************************)
(* Beam: a receiver-driven, pull-based file transfer between a FileSender  *)
(* and a FileReceiver that exchange text frames through a Writer/Reader    *)
(* pair.  The engines are the classes of src/app/lib/beam/file-storage.ts  *)
(* (FileSender, lines 367-867; FileReceiver, lines 893-1266); the message  *)
(* classes and the tuple factory are src/app/lib/beam/types.ts; the codec, *)
(* the chunker and the session id are src/app/lib/beam/protocol.ts.        *)
(*                                                                         *)
(* JavaScript runs each engine single-threaded and cooperatively: a        *)
(* message handler runs without interruption up to an `await`, and its     *)
(* continuation runs later.  Every action below is one such uninterrupted  *)
(* run: a call from the outside (send, receive, cancel), the delivery of   *)
(* a frame by the Reader (the handler up to its awaited Writer.write), or  *)
(* the continuation of a suspended handler.                                *)
(***************************************************************************)
EXTENDS Integers, Sequences, FiniteSets, TLC

(***************************************************************************)
(* Bounds of the model.                                                    *)
(***************************************************************************)
MaxFileLen == 3
MaxChunkSize == 2
MaxCancels == 2
MaxDup == 1
MaxInject == 1

(***************************************************************************)
(* Input domains.  A file name is the sequence of its UTF-16 code units,   *)
(* a content is a sequence of bytes.                                       *)
(***************************************************************************)
Bytes == {0, 255}
FileNames == {<<116, 46, 116>>}
MimeTypes == {"", "text/plain"}
InitSeqs == {999}

RECURSIVE SeqsUpTo(_, _)
SeqsUpTo(S, n) ==
    IF n = 0 THEN {<<>>}
    ELSE LET shorter == SeqsUpTo(S, n - 1)
         IN  shorter \cup {Append(q, x) : q \in {p \in shorter : Len(p) = n - 1}, x \in S}

Contents == SeqsUpTo(Bytes, MaxFileLen)

Files == [name : FileNames, type : MimeTypes, content : Contents]

(***************************************************************************)
(* Enumerations of types.ts.                                               *)
(***************************************************************************)
V0 == 0

HELLO == 0
ACK == 1
PULL == 2
DATA == 3
ERROR == 4

SENDER == 0
RECEIVER == 1

INVALID_PARTY == 0

IDLE == "idle"
HANDSHAKE == "handshake"
TRANSFER == "transfer"
DONE == "done"
ERRORSTATE == "error"
CANCELLED == "cancelled"

DefaultSessionIdLength == 5
DefaultMimeType == "application/octet-stream"

(***************************************************************************)
(* Messages: the classes of types.ts as records, toTuple() and             *)
(* createMessageFromTuple().                                               *)
(***************************************************************************)
createHelloMessage(sessionId, sequenceNumber, partyType, protocolVersion, fileName, fileSize, mimeType, totalChunks, chunkSize) ==
    [messageType |-> HELLO, sessionId |-> sessionId, sequenceNumber |-> sequenceNumber,
     partyType |-> partyType, protocolVersion |-> protocolVersion,
     fileName |-> fileName, fileSize |-> fileSize, mimeType |-> mimeType,
     totalChunks |-> totalChunks, chunkSize |-> chunkSize]

createAckMessage(sessionId, sequenceNumber) ==
    [messageType |-> ACK, sessionId |-> sessionId, sequenceNumber |-> sequenceNumber]

createPullMessage(sessionId, sequenceNumber, chunkIndex) ==
    [messageType |-> PULL, sessionId |-> sessionId, sequenceNumber |-> sequenceNumber,
     chunkIndex |-> chunkIndex]

createDataMessage(sessionId, sequenceNumber, chunkIndex, nextChunkIndex, data) ==
    [messageType |-> DATA, sessionId |-> sessionId, sequenceNumber |-> sequenceNumber,
     chunkIndex |-> chunkIndex, nextChunkIndex |-> nextChunkIndex, data |-> data]

createErrorMessage(errorType) ==
    [messageType |-> ERROR, errorType |-> errorType]

toTuple(m) ==
    CASE m.messageType = HELLO ->
            <<HELLO, m.sessionId, m.sequenceNumber, m.partyType, m.protocolVersion,
              m.fileName, m.fileSize, m.mimeType, m.totalChunks, m.chunkSize>>
      [] m.messageType = ACK -> <<ACK, m.sessionId, m.sequenceNumber>>
      [] m.messageType = PULL -> <<PULL, m.sessionId, m.sequenceNumber, m.chunkIndex>>
      [] m.messageType = DATA ->
            <<DATA, m.sessionId, m.sequenceNumber, m.chunkIndex, m.nextChunkIndex, m.data>>
      [] m.messageType = ERROR -> <<ERROR, m.errorType>>

Arity(messageType) ==
    CASE messageType = HELLO -> 10
      [] messageType = ACK -> 3
      [] messageType = PULL -> 4
      [] messageType = DATA -> 6
      [] messageType = ERROR -> 2
      [] OTHER -> -1

\* The result of a call that may throw: ok = FALSE stands for the TransferError.
Thrown == [ok |-> FALSE]

\* A faulty decoder, which lets a tuple longer than its tag's arity through.
createMessageFromTuple_AtLeast(tuple) ==
    IF Len(tuple) = 0 THEN Thrown
    ELSE IF tuple[1] \notin {HELLO, ACK, PULL, DATA, ERROR} THEN Thrown
    ELSE IF Len(tuple) < Arity(tuple[1]) THEN Thrown
    ELSE [ok |-> TRUE,
          msg |-> CASE tuple[1] = HELLO ->
                         createHelloMessage(tuple[2], tuple[3], tuple[4], tuple[5],
                                            tuple[6], tuple[7], tuple[8], tuple[9], tuple[10])
                    [] tuple[1] = ACK -> createAckMessage(tuple[2], tuple[3])
                    [] tuple[1] = PULL -> createPullMessage(tuple[2], tuple[3], tuple[4])
                    [] tuple[1] = DATA ->
                         createDataMessage(tuple[2], tuple[3], tuple[4], tuple[5], tuple[6])
                    [] tuple[1] = ERROR -> createErrorMessage(tuple[2])]

createMessageFromTuple(tuple) ==
    IF Len(tuple) = 0 THEN Thrown
    ELSE IF tuple[1] \notin {HELLO, ACK, PULL, DATA, ERROR} THEN Thrown
    ELSE IF Len(tuple) # Arity(tuple[1]) THEN Thrown
    ELSE [ok |-> TRUE,
          msg |-> CASE tuple[1] = HELLO ->
                         createHelloMessage(tuple[2], tuple[3], tuple[4], tuple[5],
                                            tuple[6], tuple[7], tuple[8], tuple[9], tuple[10])
                    [] tuple[1] = ACK -> createAckMessage(tuple[2], tuple[3])
                    [] tuple[1] = PULL -> createPullMessage(tuple[2], tuple[3], tuple[4])
                    [] tuple[1] = DATA ->
                         createDataMessage(tuple[2], tuple[3], tuple[4], tuple[5], tuple[6])
                    [] tuple[1] = ERROR -> createErrorMessage(tuple[2])]

\* In the transfer model a frame is kept as the positional tuple it carries:
\* what serializeMessage makes of a message and deserializeMessage of a frame,
\* without the bytes in between (the codec itself follows).
FrameOf(message) == toTuple(message)

MessageOf(data) == createMessageFromTuple(data)

(***************************************************************************)
(* The codec: encode/decode of @msgpack/msgpack and btoa/atob.  A          *)
(* JavaScript value is kept with its runtime type, since the encoder       *)
(* chooses the format by it; a string is the sequence of its UTF-16 code   *)
(* units (outside the surrogate range), a number an integer below 2^31.    *)
(***************************************************************************)
Num(n) == [t |-> "number", v |-> n]

Str(units) == [t |-> "string", v |-> units]

Bin(bytes) == [t |-> "Uint8Array", v |-> bytes]

Arr(items) == [t |-> "Array", v |-> items]

RECURSIVE BigEndian(_, _)
BigEndian(n, count) ==
    IF count = 0 THEN <<>> ELSE Append(BigEndian(n \div 256, count - 1), n % 256)

RECURSIVE FromBigEndian(_)
FromBigEndian(bytes) ==
    IF bytes = <<>> THEN 0
    ELSE (FromBigEndian(SubSeq(bytes, 1, Len(bytes) - 1)) * 256) + bytes[Len(bytes)]

\* The two's-complement bytes of a negative 32-bit integer.
Int32Bytes(n) == [BigEndian((n + 2147483647) + 1, 4) EXCEPT ![1] = @ + 128]

\* A faulty encoder, which writes every integer from 128 up as one byte.
EncodeNumber_OneByte(n) ==
    IF n >= 0
    THEN IF n < 128 THEN <<n>> ELSE <<204, n % 256>>
    ELSE IF n >= -32 THEN <<256 + n>>
         ELSE IF n >= -128 THEN <<208>> \o BigEndian(256 + n, 1)
         ELSE IF n >= -32768 THEN <<209>> \o BigEndian(65536 + n, 2)
         ELSE <<210>> \o Int32Bytes(n)

EncodeNumber(n) ==
    IF n >= 0
    THEN IF n < 128 THEN <<n>>
         ELSE IF n < 256 THEN <<204>> \o BigEndian(n, 1)
         ELSE IF n < 65536 THEN <<205>> \o BigEndian(n, 2)
         ELSE <<206>> \o BigEndian(n, 4)
    ELSE IF n >= -32 THEN <<256 + n>>
         ELSE IF n >= -128 THEN <<208>> \o BigEndian(256 + n, 1)
         ELSE IF n >= -32768 THEN <<209>> \o BigEndian(65536 + n, 2)
         ELSE <<210>> \o Int32Bytes(n)

Utf8Unit(unit) ==
    IF unit < 128 THEN <<unit>>
    ELSE IF unit < 2048 THEN <<192 + (unit \div 64), 128 + (unit % 64)>>
    ELSE <<224 + (unit \div 4096), 128 + ((unit \div 64) % 64), 128 + (unit % 64)>>

RECURSIVE utf8Encode(_)
utf8Encode(units) ==
    IF units = <<>> THEN <<>> ELSE Utf8Unit(Head(units)) \o utf8Encode(Tail(units))

RECURSIVE utf8Decode(_)
utf8Decode(bytes) ==
    IF bytes = <<>> THEN <<>>
    ELSE LET byte1 == bytes[1]
             n == Len(bytes)
         IN  IF byte1 >= 192 /\ byte1 < 224 /\ n >= 2
             THEN <<((byte1 % 32) * 64) + (bytes[2] % 64)>> \o utf8Decode(SubSeq(bytes, 3, n))
             ELSE IF byte1 >= 224 /\ byte1 < 240 /\ n >= 3
             THEN <<((byte1 % 16) * 4096) + ((bytes[2] % 64) * 64) + (bytes[3] % 64)>>
                      \o utf8Decode(SubSeq(bytes, 4, n))
             ELSE <<byte1>> \o utf8Decode(Tail(bytes))

EncodeString(units) ==
    LET bytes == utf8Encode(units)
        n == Len(bytes)
    IN  IF n < 32 THEN <<160 + n>> \o bytes
        ELSE IF n < 256 THEN <<217, n>> \o bytes
        ELSE <<218>> \o BigEndian(n, 2) \o bytes

EncodeBinary(bytes) ==
    IF Len(bytes) < 256 THEN <<196, Len(bytes)>> \o bytes
    ELSE <<197>> \o BigEndian(Len(bytes), 2) \o bytes

RECURSIVE encode(_)
RECURSIVE EncodeItems(_)
EncodeItems(items) ==
    IF items = <<>> THEN <<>> ELSE encode(Head(items)) \o EncodeItems(Tail(items))

encode(value) ==
    CASE value.t = "number" -> EncodeNumber(value.v)
      [] value.t = "string" -> EncodeString(value.v)
      [] value.t = "Uint8Array" -> EncodeBinary(value.v)
      [] value.t = "Array" ->
            (IF Len(value.v) < 16 THEN <<144 + Len(value.v)>>
             ELSE <<220>> \o BigEndian(Len(value.v), 2)) \o EncodeItems(value.v)

\* Decoding reads one value off the front of the bytes; the formats read are
\* those the encoder above writes, any other first byte is left undecoded.
Undecoded == [ok |-> FALSE]

Decoded(value, rest) == [ok |-> TRUE, value |-> value, rest |-> rest]

DecodeUnsigned(count, rest) ==
    IF Len(rest) < count \/ (count = 4 /\ rest[1] >= 128) THEN Undecoded
    ELSE Decoded(Num(FromBigEndian(SubSeq(rest, 1, count))), SubSeq(rest, count + 1, Len(rest)))

DecodeSigned(count, rest) ==
    IF Len(rest) < count THEN Undecoded
    ELSE LET high == IF rest[1] >= 128 THEN rest[1] - 256 ELSE rest[1]
             low == FromBigEndian(SubSeq(rest, 2, count))
             scale == CASE count = 1 -> 1 [] count = 2 -> 256 [] count = 4 -> 16777216
         IN  Decoded(Num((high * scale) + low), SubSeq(rest, count + 1, Len(rest)))

RECURSIVE DecodeValue(_)
RECURSIVE DecodeItems(_, _)
DecodeItems(count, bytes) ==
    IF count = 0 THEN Decoded(<<>>, bytes)
    ELSE LET first == DecodeValue(bytes)
         IN  IF ~first.ok THEN Undecoded
             ELSE LET others == DecodeItems(count - 1, first.rest)
                  IN  IF ~others.ok THEN Undecoded
                      ELSE Decoded(<<first.value>> \o others.value, others.rest)

DecodeBody(type, size, rest) ==
    IF type = "Array"
    THEN LET items == DecodeItems(size, rest)
         IN  IF items.ok THEN Decoded(Arr(items.value), items.rest) ELSE Undecoded
    ELSE IF Len(rest) < size THEN Undecoded
    ELSE LET body == SubSeq(rest, 1, size)
             after == SubSeq(rest, size + 1, Len(rest))
         IN  IF type = "string" THEN Decoded(Str(utf8Decode(body)), after)
             ELSE Decoded(Bin(body), after)

DecodeSized(type, count, rest) ==
    IF Len(rest) < count THEN Undecoded
    ELSE DecodeBody(type, FromBigEndian(SubSeq(rest, 1, count)),
                    SubSeq(rest, count + 1, Len(rest)))

DecodeValue(bytes) ==
    IF bytes = <<>> THEN Undecoded
    ELSE LET headByte == Head(bytes)
             rest == Tail(bytes)
         IN  CASE headByte < 128 -> Decoded(Num(headByte), rest)
               [] headByte >= 224 -> Decoded(Num(headByte - 256), rest)
               [] headByte >= 144 /\ headByte < 160 -> DecodeBody("Array", headByte - 144, rest)
               [] headByte >= 160 /\ headByte < 192 -> DecodeBody("string", headByte - 160, rest)
               [] headByte = 196 -> DecodeSized("Uint8Array", 1, rest)
               [] headByte = 197 -> DecodeSized("Uint8Array", 2, rest)
               [] headByte = 204 -> DecodeUnsigned(1, rest)
               [] headByte = 205 -> DecodeUnsigned(2, rest)
               [] headByte = 206 -> DecodeUnsigned(4, rest)
               [] headByte = 208 -> DecodeSigned(1, rest)
               [] headByte = 209 -> DecodeSigned(2, rest)
               [] headByte = 210 -> DecodeSigned(4, rest)
               [] headByte = 217 -> DecodeSized("string", 1, rest)
               [] headByte = 218 -> DecodeSized("string", 2, rest)
               [] headByte = 220 -> DecodeSized("Array", 2, rest)
               [] OTHER -> Undecoded

\* decode(bytes): one value and nothing after it, or a throw.
decode(bytes) ==
    LET first == DecodeValue(bytes)
    IN  IF first.ok /\ first.rest = <<>> THEN [ok |-> TRUE, value |-> first.value]
        ELSE Undecoded

Base64Chars ==
    <<"A", "B", "C", "D", "E", "F", "G", "H", "I", "J", "K", "L", "M", "N", "O", "P",
      "Q", "R", "S", "T", "U", "V", "W", "X", "Y", "Z", "a", "b", "c", "d", "e", "f",
      "g", "h", "i", "j", "k", "l", "m", "n", "o", "p", "q", "r", "s", "t", "u", "v",
      "w", "x", "y", "z", "0", "1", "2", "3", "4", "5", "6", "7", "8", "9", "+", "/">>

Base64Char(sextet) == Base64Chars[sextet + 1]

\* btoa(String.fromCharCode(...bytes)): three bytes to four characters.
RECURSIVE btoa(_)
btoa(bytes) ==
    IF bytes = <<>> THEN <<>>
    ELSE IF Len(bytes) = 1
    THEN <<Base64Char(bytes[1] \div 4), Base64Char((bytes[1] % 4) * 16), "=", "=">>
    ELSE IF Len(bytes) = 2
    THEN <<Base64Char(bytes[1] \div 4),
           Base64Char(((bytes[1] % 4) * 16) + (bytes[2] \div 16)),
           Base64Char((bytes[2] % 16) * 4), "=">>
    ELSE <<Base64Char(bytes[1] \div 4),
           Base64Char(((bytes[1] % 4) * 16) + (bytes[2] \div 16)),
           Base64Char(((bytes[2] % 16) * 4) + (bytes[3] \div 64)),
           Base64Char(bytes[3] % 64)>> \o btoa(SubSeq(bytes, 4, Len(bytes)))

Sextet(char) == CHOOSE sextet \in 0..63 : Base64Chars[sextet + 1] = char

IsBase64Char(char) == \E sextet \in 0..63 : Base64Chars[sextet + 1] = char

\* The bytes of one group of four characters.
AtobGroup(group) ==
    LET a == Sextet(group[1])
        b == Sextet(group[2])
    IN  IF group[3] = "=" THEN <<(a * 4) + (b \div 16)>>
        ELSE LET c == Sextet(group[3])
             IN  IF group[4] = "=" THEN <<(a * 4) + (b \div 16), ((b % 16) * 16) + (c \div 4)>>
                 ELSE <<(a * 4) + (b \div 16), ((b % 16) * 16) + (c \div 4),
                        ((c % 4) * 64) + Sextet(group[4])>>

RECURSIVE AtobGroups(_)
AtobGroups(chars) ==
    IF chars = <<>> THEN <<>>
    ELSE AtobGroup(SubSeq(chars, 1, 4)) \o AtobGroups(SubSeq(chars, 5, Len(chars)))

\* atob(data) and the charCodeAt loop: the bytes, or a throw for text that is
\* not padded Base64.
atob(chars) ==
    LET n == Len(chars)
        padded == \/ n = 0
                  \/ /\ \A i \in 1..(n - 2) : IsBase64Char(chars[i])
                     /\ \/ IsBase64Char(chars[n - 1]) /\ IsBase64Char(chars[n])
                        \/ IsBase64Char(chars[n - 1]) /\ chars[n] = "="
                        \/ chars[n - 1] = "=" /\ chars[n] = "="
    IN  IF n % 4 # 0 \/ ~padded THEN Undecoded
        ELSE [ok |-> TRUE, value |-> AtobGroups(chars)]

\* message.toTuple() with the runtime types of the class's fields.
TypedTuple(message) ==
    LET tuple == toTuple(message)
        Type(i) == CASE message.messageType = HELLO /\ i \in {2, 6, 8} -> "string"
                     [] message.messageType \in {ACK, PULL, DATA} /\ i = 2 -> "string"
                     [] message.messageType = DATA /\ i = 6 -> "Uint8Array"
                     [] OTHER -> "number"
    IN  [i \in DOMAIN tuple |-> [t |-> Type(i), v |-> tuple[i]]]

serializeMessage(message) == btoa(encode(Arr(TypedTuple(message))))

\* The tuple decode() returns for a frame, with the types of its items.
DecodedTuple(data) ==
    LET bytes == atob(data)
    IN  IF ~bytes.ok THEN Undecoded ELSE decode(bytes.value)

deserializeMessage(data) ==
    LET tuple == DecodedTuple(data)
    IN  IF ~tuple.ok THEN Thrown
        ELSE IF tuple.value.t # "Array" THEN Thrown
        ELSE IF Len(tuple.value.v) = 0 THEN Thrown
        ELSE IF tuple.value.v[1].t # "number" THEN Thrown
        ELSE createMessageFromTuple([i \in DOMAIN tuple.value.v |-> tuple.value.v[i].v])

\* TRUE when validateMessage returns the message, FALSE when it throws.
validateMessage(message, expectedType) ==
    /\ message.messageType = expectedType
    /\ Len(toTuple(message)) = Arity(expectedType)

(***************************************************************************)
(* Session identity: generateSessionId of protocol.ts.                     *)
(***************************************************************************)
\* A 32-bit integer is kept as two 16-bit limbs <<high, low>> of its
\* two's-complement bit pattern.  ((hash << 5) - hash) + char followed by
\* hash & hash is hash * 31 + char reduced to 32 bits.
Limb == 65536

RECURSIVE HashFrom(_, _, _)
HashFrom(fileName, i, hash) ==
    IF i > Len(fileName) THEN hash
    ELSE LET low == hash[2] * 31 + fileName[i]
             high == hash[1] * 31 + (low \div Limb)
         IN  HashFrom(fileName, i + 1, <<high % Limb, low % Limb>>)

\* Math.abs of the signed value: the pattern itself, or its negation.
AbsHash(hash) ==
    IF hash[1] < Limb \div 2 THEN hash
    ELSE <<(Limb - hash[1] - (IF hash[2] = 0 THEN 0 ELSE 1)) % Limb, (Limb - hash[2]) % Limb>>

SessionChars ==
    <<"A", "B", "C", "D", "E", "F", "G", "H", "I", "J", "K", "L", "M",
      "N", "O", "P", "Q", "R", "S", "T", "U", "V", "W", "X", "Y", "Z",
      "0", "1", "2", "3", "4", "5", "6", "7", "8", "9">>

\* chars[absHash % 36], then absHash = floor(absHash / 36), `n` times.
RECURSIVE DigitsFrom(_, _)
DigitsFrom(absHash, n) ==
    IF n = 0 THEN <<>>
    ELSE LET base == Len(SessionChars)
             t == (absHash[1] % base) * Limb + absHash[2]
         IN  <<SessionChars[(t % base) + 1]>>
                \o DigitsFrom(<<absHash[1] \div base, t \div base>>, n - 1)

generateSessionId(fileName, length) ==
    DigitsFrom(AbsHash(HashFrom(fileName, 1, <<0, 0>>)), length)

(***************************************************************************)
(* Chunker: chunkFile and assembleFile of protocol.ts.                     *)
(***************************************************************************)
Min(a, b) == IF a < b THEN a ELSE b

RECURSIVE ChunksFrom(_, _, _)
ChunksFrom(content, offset, chunkSize) ==
    IF offset >= Len(content) THEN <<>>
    ELSE <<SubSeq(content, offset + 1, Min(offset + chunkSize, Len(content)))>>
            \o ChunksFrom(content, offset + chunkSize, chunkSize)

\* A faulty chunker, which leaves out a last chunk shorter than chunkSize.
chunkFile_FullChunksOnly(file, chunkSize) ==
    ChunksFrom(SubSeq(file.content, 1, (Len(file.content) \div chunkSize) * chunkSize),
               0, chunkSize)

chunkFile(file, chunkSize) == ChunksFrom(file.content, 0, chunkSize)

RECURSIVE Concat(_)
Concat(chunks) ==
    IF Len(chunks) = 0 THEN <<>> ELSE Head(chunks) \o Concat(Tail(chunks))

RECURSIVE ConcatReversed(_)
ConcatReversed(chunks) ==
    IF Len(chunks) = 0 THEN <<>> ELSE ConcatReversed(Tail(chunks)) \o Head(chunks)

\* A faulty assembleFile, which lays the chunks out last to first.
assembleFile_Reversed(chunks, fileName, mimeType) ==
    [name |-> fileName, type |-> mimeType, content |-> ConcatReversed(chunks)]

assembleFile(chunks, fileName, mimeType) ==
    [name |-> fileName, type |-> mimeType, content |-> Concat(chunks)]

FileSize(file) == Len(file.content)

NoFile == [name |-> <<>>, type |-> "", content |-> <<>>, absent |-> TRUE]

(***************************************************************************)
(* FileSender.  A sender is a record of the fields of the class plus what  *)
(* the outside observes of it: the position of its send() call (pc), the   *)
(* promise send() returned, the frames it handed to its Writer (written),  *)
(* the callbacks it invoked (events), the lines handleError logged         *)
(* (errors), the handlers suspended at an awaited Writer.write that have   *)
(* something left to do after it (conts: the sender's ACK handler and its  *)
(* handler of the last PULL, the receiver's HELLO handler), whether        *)
(* Reader.read has been called (reading) and the delete requests           *)
(* cleanupStoredChunks has issued and not yet performed (cleanups).        *)
(* pc2 and promise2 are the position and the promise of a second send()    *)
(* call made on the same sender; owner tells whose resolve and reject      *)
(* functions currentResolve/currentReject hold (1: the first call's).      *)
(*                                                                         *)
(* A handler's local that is used more than once is bound as the element   *)
(* of a singleton set, CHOOSE out \in {e(x) : x \in {v}} : TRUE, which is   *)
(* LET x == v IN e(x) with v computed once.                                *)
(***************************************************************************)
NoConts == [ack |-> 0, pullLast |-> 0, hello |-> 0, collision |-> 0]

NewSender(sequenceNumber, chunkSize) ==
    [state |-> IDLE, sessionId |-> <<>>, sequenceNumber |-> sequenceNumber,
     chunks |-> <<>>, file |-> NoFile, fileName |-> <<>>, fileSize |-> 0,
     mimeType |-> "", sentChunks |-> 0, isListening |-> FALSE,
     hasCallbacks |-> FALSE, isResumedSession |-> FALSE, chunkSize |-> chunkSize,
     pc |-> "idle", promise |-> "none", written |-> <<>>, events |-> <<>>,
     errors |-> <<>>, conts |-> NoConts, reading |-> FALSE, cleanups |-> 0,
     pc2 |-> "idle", promise2 |-> "none", owner |-> 1, thrown |-> "none"]

\* handleError with the body that is commented out in the source: the state
\* becomes ERROR and onError is called.
SenderHandleError_Terminating(s, error) ==
    [s EXCEPT !.errors = Append(@, [msg |-> error, at |-> s.state]),
              !.state = ERRORSTATE,
              !.isListening = FALSE,
              !.events = Append(@, "error")]

\* handleError: the body is commented out in the source; only the log remains.
SenderHandleError(s, error) ==
    [s EXCEPT !.errors = Append(@, [msg |-> error, at |-> s.state])]

\* sendMessage up to its await: the frame is handed to the Writer.
SenderSendMessage(s, message) ==
    [s EXCEPT !.written = Append(@, FrameOf(message))]

\* The calling handler is suspended at the await, with `k` left to do.
SenderAwait(s, k) == [s EXCEPT !.conts[k] = @ + 1]

SenderStartListening(s) ==
    IF s.isListening THEN s
    ELSE [s EXCEPT !.isListening = TRUE, !.reading = TRUE]

SenderStopListening(s) == [s EXCEPT !.isListening = FALSE]

\* send(): the synchronous prefix, up to `await chunkFile(...)`.
SenderSend(s, file) ==
    [s EXCEPT !.file = file,
              !.fileName = file.name,
              !.fileSize = FileSize(file),
              !.mimeType = IF file.type = "" THEN DefaultMimeType ELSE file.type,
              !.sessionId = generateSessionId(file.name, DefaultSessionIdLength),
              !.promise = "pending",
              !.pc = "chunking"]

\* send(): from the chunks to `await this.fileStorage.storeFileChunks(...)`.
SenderSendChunked(s) ==
    [s EXCEPT !.chunks = chunkFile(s.file, s.chunkSize),
              !.sentChunks = 0,
              !.isResumedSession = FALSE,
              !.pc = "storing"]

\* send(): from the store's answer to `await saveSenderSession(...)`.
SenderSendStored(s) == [s EXCEPT !.pc = "saving"]

\* startHandshake up to the awaited write of HELLO.
SenderStartHandshake(s) ==
    CHOOSE out \in {
        LET fileName == IF s1.isResumedSession THEN s1.fileName ELSE s1.file.name
            fileSize == IF s1.isResumedSession THEN s1.fileSize ELSE FileSize(s1.file)
            mimeType == IF s1.isResumedSession THEN s1.mimeType
                        ELSE IF s1.file.type = "" THEN DefaultMimeType ELSE s1.file.type
            helloMessage == createHelloMessage(s1.sessionId, s1.sequenceNumber, SENDER, V0,
                                               fileName, fileSize, mimeType,
                                               Len(s1.chunks), s1.chunkSize)
        IN  SenderSendMessage([s1 EXCEPT !.sequenceNumber = @ + 1], helloMessage)
        : s1 \in {SenderStartListening([s EXCEPT !.state = HANDSHAKE])} } : TRUE

\* A faulty send(), in which a failure of saveSenderSession is not caught.
SenderSendSaved_Rejecting(s) == [s EXCEPT !.promise = "rejected", !.pc = "thrown"]

\* send(): after saveSenderSession, the promise executor and startHandshake.
SenderSendSaved(s) ==
    SenderStartHandshake([s EXCEPT !.hasCallbacks = TRUE, !.owner = 1, !.pc = "started"])

\* The sender as the second send() call sees it: "this call" is the second.
SenderSecond(s) ==
    [s EXCEPT !.pc = s.pc2, !.pc2 = s.pc,
              !.promise = s.promise2, !.promise2 = s.promise,
              !.owner = 3 - s.owner]

SenderCleanupStoredChunks(s) ==
    LET fileName == IF s.isResumedSession THEN s.fileName ELSE s.file.name
    IN  IF Len(fileName) > 0 THEN [s EXCEPT !.cleanups = @ + 1] ELSE s

SenderCompleteTransfer(s) ==
    CHOOSE out \in {
        LET s2 == [SenderCleanupStoredChunks(s1) EXCEPT !.events = Append(@, "done")]
        IN  IF s1.hasCallbacks
            THEN IF s1.owner = 1
                 THEN [s2 EXCEPT !.promise = "resolved", !.hasCallbacks = FALSE]
                 ELSE [s2 EXCEPT !.promise2 = "resolved", !.hasCallbacks = FALSE]
            ELSE s2
        : s1 \in {SenderStopListening([s EXCEPT !.state = DONE])} } : TRUE

\* A faulty handleAckMessage, which takes an ACK of any session.
SenderHandleAckMessage_AnySession(s, message) ==
    IF ~validateMessage(message, ACK) THEN SenderHandleError(s, "Message validation failed")
    ELSE IF s.state = HANDSHAKE
         THEN SenderAwait(
                  SenderSendMessage([s EXCEPT !.state = TRANSFER, !.sequenceNumber = @ + 1],
                                    createAckMessage(s.sessionId, s.sequenceNumber)),
                  "ack")
         ELSE s

\* handleAckMessage up to the awaited write of the responding ACK.
SenderHandleAckMessage(s, message) ==
    IF ~validateMessage(message, ACK) THEN SenderHandleError(s, "Message validation failed")
    ELSE IF message.sessionId # s.sessionId THEN SenderHandleError(s, "Session ID mismatch")
    ELSE IF s.state = HANDSHAKE
         THEN SenderAwait(
                  SenderSendMessage([s EXCEPT !.state = TRANSFER, !.sequenceNumber = @ + 1],
                                    createAckMessage(s.sessionId, s.sequenceNumber)),
                  "ack")
         ELSE s

\* A faulty handleAckMessage, without the branch for empty files.
SenderResumeAck_NoEmptyCase(s) ==
    [s EXCEPT !.conts.ack = @ - 1, !.events = Append(@, "handshake")]

\* A faulty handleAckMessage, which pushes the first chunk once the
\* handshake is done instead of waiting for a PULL.
SenderResumeAck_PushesFirstChunk(s) ==
    CHOOSE out \in {
        IF Len(s1.chunks) = 0 THEN SenderCompleteTransfer(s1)
        ELSE SenderSendMessage([s1 EXCEPT !.sequenceNumber = @ + 1],
                               createDataMessage(s1.sessionId, s1.sequenceNumber, 0,
                                                 IF Len(s1.chunks) > 1 THEN 1 ELSE -1,
                                                 s1.chunks[1]))
        : s1 \in {[s EXCEPT !.conts.ack = @ - 1, !.events = Append(@, "handshake")]} } : TRUE

\* handleAckMessage after the write: the handshake event, and completion of
\* an empty file.
SenderResumeAck(s) ==
    CHOOSE out \in {
        IF Len(s1.chunks) = 0 THEN SenderCompleteTransfer(s1) ELSE s1
        : s1 \in {[s EXCEPT !.conts.ack = @ - 1, !.events = Append(@, "handshake")]} } : TRUE

\* A faulty handlePullMessage, which does not answer a PULL for an index it
\* has no chunk for.
SenderHandlePullMessage_InRangeOnly(s, message) ==
    IF s.state # TRANSFER THEN SenderHandleError(s, "Not in transfer state")
    ELSE IF ~validateMessage(message, PULL) THEN SenderHandleError(s, "Message validation failed")
    ELSE IF message.sessionId # s.sessionId THEN SenderHandleError(s, "Session ID mismatch")
    ELSE IF message.chunkIndex < 0 \/ message.chunkIndex >= Len(s.chunks) THEN s
    ELSE LET chunkIndex == message.chunkIndex
             nextChunkIndex == IF chunkIndex + 1 < Len(s.chunks) THEN chunkIndex + 1 ELSE -1
             dataMessage == createDataMessage(s.sessionId, s.sequenceNumber, chunkIndex,
                                              nextChunkIndex, s.chunks[chunkIndex + 1])
             s1 == [s EXCEPT !.sentChunks = chunkIndex,
                             !.events = @ \o <<"chunk", "progress">>]
             s2 == SenderSendMessage([s1 EXCEPT !.sequenceNumber = @ + 1], dataMessage)
         IN  IF nextChunkIndex = -1 THEN SenderAwait(s2, "pullLast") ELSE s2

\* handlePullMessage up to the awaited write of DATA.
SenderHandlePullMessage(s, message) ==
    IF s.state # TRANSFER THEN SenderHandleError(s, "Not in transfer state")
    ELSE IF ~validateMessage(message, PULL) THEN SenderHandleError(s, "Message validation failed")
    ELSE IF message.sessionId # s.sessionId THEN SenderHandleError(s, "Session ID mismatch")
    ELSE LET chunkIndex == message.chunkIndex
             inRange == chunkIndex >= 0 /\ chunkIndex < Len(s.chunks)
             chunkData == IF inRange THEN s.chunks[chunkIndex + 1] ELSE <<>>
             nextChunkIndex == IF inRange /\ chunkIndex + 1 < Len(s.chunks)
                               THEN chunkIndex + 1 ELSE -1
             dataMessage == createDataMessage(s.sessionId, s.sequenceNumber,
                                              chunkIndex, nextChunkIndex, chunkData)
             s1 == IF inRange
                   THEN [s EXCEPT !.sentChunks = chunkIndex,
                                  !.events = @ \o <<"chunk", "progress">>]
                   ELSE s
             s2 == SenderSendMessage([s1 EXCEPT !.sequenceNumber = @ + 1], dataMessage)
         IN  IF nextChunkIndex = -1 THEN SenderAwait(s2, "pullLast") ELSE s2

\* handlePullMessage after the write of a DATA that carried next = -1 (after
\* any other DATA nothing is left to do).
SenderResumePullLast(s) ==
    SenderCompleteTransfer([s EXCEPT !.conts.pullLast = @ - 1])

SenderHandleErrorMessage(s, message) ==
    IF ~validateMessage(message, ERROR) THEN SenderHandleError(s, "Message validation failed")
    ELSE SenderHandleError(s, IF message.errorType = INVALID_PARTY
                              THEN "Invalid party type detected" ELSE "Unknown error")

\* handleMessage: what the Reader's onData callback runs for one frame.
SenderHandleMessage(s, data) ==
    CHOOSE out \in {
        IF ~d.ok THEN SenderHandleError(s, "Failed to deserialize message")
        ELSE CASE d.msg.messageType = ACK -> SenderHandleAckMessage(s, d.msg)
               [] d.msg.messageType = PULL -> SenderHandlePullMessage(s, d.msg)
               [] d.msg.messageType = ERROR -> SenderHandleErrorMessage(s, d.msg)
               [] OTHER -> SenderHandleError(s, "Unexpected message type")
        : d \in {MessageOf(data)} } : TRUE

\* A faulty cancel(), which reports each call to onError.
SenderCancel_Reporting(s) ==
    [s EXCEPT !.state = CANCELLED, !.isListening = FALSE, !.hasCallbacks = FALSE,
              !.events = Append(@, "error")]

SenderCancel(s) ==
    LET s1 == SenderStopListening([s EXCEPT !.state = CANCELLED])
    IN  IF s1.hasCallbacks THEN [s1 EXCEPT !.hasCallbacks = FALSE] ELSE s1

(***************************************************************************)
(* FileReceiver.  The chunk table is a function from the chunk indices     *)
(* received so far to their payloads; result is the file receive()         *)
(* resolved with.                                                          *)
(***************************************************************************)
NoChunks == [i \in {} |-> <<>>]

NewReceiver(sequenceNumber) ==
    [state |-> IDLE, sessionId |-> <<>>, sequenceNumber |-> sequenceNumber,
     chunks |-> NoChunks, fileName |-> <<>>, fileSize |-> 0, mimeType |-> "",
     totalChunks |-> 0, chunkSize |-> 0, currentChunkIndex |-> 0,
     isListening |-> FALSE, hasCallbacks |-> FALSE,
     promise |-> "none", result |-> NoFile, written |-> <<>>, events |-> <<>>,
     errors |-> <<>>, conts |-> NoConts, reading |-> FALSE, promise2 |-> "none"]

\* handleError: the body is commented out in the source; only the log remains.
ReceiverHandleError(r, error) ==
    [r EXCEPT !.errors = Append(@, [msg |-> error, at |-> r.state])]

ReceiverSendMessage(r, message) ==
    [r EXCEPT !.written = Append(@, FrameOf(message))]

ReceiverAwait(r, k) == [r EXCEPT !.conts[k] = @ + 1]

ReceiverStartListening(r) ==
    IF r.isListening THEN r
    ELSE [r EXCEPT !.isListening = TRUE, !.reading = TRUE]

ReceiverStopListening(r) == [r EXCEPT !.isListening = FALSE]

\* receive(): no await before the promise is returned; startScanning included.
ReceiverReceive(r) ==
    ReceiverStartListening([r EXCEPT !.chunks = NoChunks,
                                     !.currentChunkIndex = 0,
                                     !.promise = "pending",
                                     !.hasCallbacks = TRUE,
                                     !.state = HANDSHAKE])

ReceiverCancel(r) ==
    LET r1 == ReceiverStopListening([r EXCEPT !.state = CANCELLED])
    IN  IF r1.hasCallbacks THEN [r1 EXCEPT !.hasCallbacks = FALSE] ELSE r1

\* A faulty handleHelloMessage, without the check of the protocol version.
ReceiverHandleHelloMessage_AnyVersion(r, message) ==
    IF r.state # HANDSHAKE THEN r
    ELSE IF ~validateMessage(message, HELLO)
         THEN ReceiverHandleError(r, "Message validation failed")
    ELSE IF message.partyType = RECEIVER
         THEN ReceiverAwait(ReceiverSendMessage(r, createErrorMessage(INVALID_PARTY)),
                            "collision")
    ELSE IF message.partyType # SENDER
         THEN ReceiverHandleError(r, "Expected sender party type")
    ELSE LET r1 == [r EXCEPT !.sessionId = message.sessionId,
                             !.fileName = message.fileName,
                             !.fileSize = message.fileSize,
                             !.mimeType = message.mimeType,
                             !.totalChunks = message.totalChunks,
                             !.chunkSize = message.chunkSize]
         IN  ReceiverAwait(
                 ReceiverSendMessage([r1 EXCEPT !.sequenceNumber = @ + 1],
                                     createAckMessage(r1.sessionId, r1.sequenceNumber)),
                 "hello")

\* handleHelloMessage up to the awaited write (of ERROR on a collision, of
\* ACK otherwise).
ReceiverHandleHelloMessage(r, message) ==
    IF r.state # HANDSHAKE THEN r
    ELSE IF ~validateMessage(message, HELLO)
         THEN ReceiverHandleError(r, "Message validation failed")
    ELSE IF message.partyType = RECEIVER
         THEN ReceiverAwait(ReceiverSendMessage(r, createErrorMessage(INVALID_PARTY)),
                            "collision")
    ELSE IF message.partyType # SENDER
         THEN ReceiverHandleError(r, "Expected sender party type")
    ELSE IF message.protocolVersion # V0
         THEN ReceiverHandleError(r, "Unsupported protocol version")
    ELSE LET r1 == [r EXCEPT !.sessionId = message.sessionId,
                             !.fileName = message.fileName,
                             !.fileSize = message.fileSize,
                             !.mimeType = message.mimeType,
                             !.totalChunks = message.totalChunks,
                             !.chunkSize = message.chunkSize]
         IN  ReceiverAwait(
                 ReceiverSendMessage([r1 EXCEPT !.sequenceNumber = @ + 1],
                                     createAckMessage(r1.sessionId, r1.sequenceNumber)),
                 "hello")

\* handleHelloMessage after the write of ACK: the handshake event ...
ReceiverResumeHello(r) ==
    [r EXCEPT !.conts.hello = @ - 1, !.events = Append(@, "handshake")]

\* ... and after the write of ERROR: the InvalidParty error is thrown to
\* handleMessage's catch.
ReceiverResumeCollision(r) ==
    ReceiverHandleError([r EXCEPT !.conts.collision = @ - 1], "Another receiver detected")

\* A faulty requestNextChunk, whose bound check is off by one.
ReceiverRequestNextChunk_OffByOne(r) ==
    IF r.currentChunkIndex + 1 >= r.totalChunks THEN r
    ELSE ReceiverSendMessage([r EXCEPT !.sequenceNumber = @ + 1],
                             createPullMessage(r.sessionId, r.sequenceNumber,
                                               r.currentChunkIndex))

\* A faulty requestNextChunk, which does not count the PULL it writes.
ReceiverRequestNextChunk_NotCounted(r) ==
    IF r.currentChunkIndex >= r.totalChunks THEN r
    ELSE ReceiverSendMessage(r, createPullMessage(r.sessionId, r.sequenceNumber,
                                                  r.currentChunkIndex))

\* requestNextChunk up to the awaited write of PULL; the handlers that
\* await it have nothing left to do after it.
ReceiverRequestNextChunk(r) ==
    IF r.currentChunkIndex >= r.totalChunks THEN r
    ELSE ReceiverSendMessage([r EXCEPT !.sequenceNumber = @ + 1],
                             createPullMessage(r.sessionId, r.sequenceNumber,
                                               r.currentChunkIndex))

\* completeTransfer has no await: it runs within the handler that calls it.
\* A throw leaves the state DONE and reaches handleMessage's catch.
ReceiverCompleteTransfer(r) ==
    CHOOSE out \in {
        IF Cardinality(DOMAIN r1.chunks) # r1.totalChunks
        THEN ReceiverHandleError(r1, "Missing chunks")
        ELSE IF \E i \in 0..(r1.totalChunks - 1) : i \notin DOMAIN r1.chunks
        THEN ReceiverHandleError(r1, "Missing chunk")
        ELSE CHOOSE done \in {
                 IF FileSize(file) # r1.fileSize
                 THEN ReceiverHandleError(r1, "File size mismatch")
                 ELSE IF r1.hasCallbacks
                 THEN [r1 EXCEPT !.events = Append(@, "done"), !.promise = "resolved",
                                 !.result = file, !.hasCallbacks = FALSE]
                 ELSE [r1 EXCEPT !.events = Append(@, "done")]
                 : file \in {assembleFile([i \in 1..r1.totalChunks |-> r1.chunks[i - 1]],
                                          r1.fileName, r1.mimeType)} } : TRUE
        : r1 \in {ReceiverStopListening([r EXCEPT !.state = DONE])} } : TRUE

ReceiverHandleAckMessage(r, message) ==
    IF ~validateMessage(message, ACK) THEN ReceiverHandleError(r, "Message validation failed")
    ELSE IF message.sessionId # r.sessionId THEN ReceiverHandleError(r, "Session ID mismatch")
    ELSE IF r.state = HANDSHAKE
         THEN CHOOSE out \in {
                  IF r1.totalChunks = 0 THEN ReceiverCompleteTransfer(r1)
                  ELSE ReceiverRequestNextChunk(r1)
                  : r1 \in {[r EXCEPT !.state = TRANSFER, !.currentChunkIndex = 0]} } : TRUE
         ELSE r

\* A faulty chunk table, which adds the payload to the one it has under
\* the index.
ChunksSet_Appending(chunks, chunkIndex, data) ==
    [i \in DOMAIN chunks \cup {chunkIndex} |->
        IF i # chunkIndex THEN chunks[i]
        ELSE IF i \in DOMAIN chunks THEN chunks[i] \o data ELSE data]

\* The chunk table after chunks.set(chunkIndex, data).
ChunksSet(chunks, chunkIndex, data) ==
    [i \in DOMAIN chunks \cup {chunkIndex} |-> IF i = chunkIndex THEN data ELSE chunks[i]]

\* A faulty handleDataMessage, which takes a DATA without payload.
ReceiverHandleDataMessage_EmptyPayload(r, message) ==
    IF r.state # TRANSFER THEN ReceiverHandleError(r, "Not in transfer state")
    ELSE IF ~validateMessage(message, DATA)
         THEN ReceiverHandleError(r, "Message validation failed")
    ELSE IF message.sessionId # r.sessionId THEN ReceiverHandleError(r, "Session ID mismatch")
    ELSE IF message.chunkIndex < 0 \/ message.chunkIndex >= r.totalChunks
         THEN ReceiverHandleError(r, "Invalid chunk index")
    ELSE CHOOSE out \in {
             IF message.nextChunkIndex = -1 THEN ReceiverCompleteTransfer(r1)
             ELSE ReceiverRequestNextChunk(r1)
             : r1 \in {[r EXCEPT !.chunks = ChunksSet(@, message.chunkIndex, message.data),
                                 !.events = @ \o <<"chunk", "progress">>,
                                 !.currentChunkIndex =
                                     IF message.nextChunkIndex = -1 THEN @
                                     ELSE message.nextChunkIndex]} } : TRUE

ReceiverHandleDataMessage(r, message) ==
    IF r.state # TRANSFER THEN ReceiverHandleError(r, "Not in transfer state")
    ELSE IF ~validateMessage(message, DATA)
         THEN ReceiverHandleError(r, "Message validation failed")
    ELSE IF message.sessionId # r.sessionId THEN ReceiverHandleError(r, "Session ID mismatch")
    ELSE IF message.chunkIndex < 0 \/ message.chunkIndex >= r.totalChunks
            \/ Len(message.data) = 0
         THEN ReceiverHandleError(r, "Invalid chunk index")
    ELSE CHOOSE out \in {
             IF message.nextChunkIndex = -1 THEN ReceiverCompleteTransfer(r1)
             ELSE ReceiverRequestNextChunk(r1)
             : r1 \in {[r EXCEPT !.chunks = ChunksSet(@, message.chunkIndex, message.data),
                                 !.events = @ \o <<"chunk", "progress">>,
                                 !.currentChunkIndex =
                                     IF message.nextChunkIndex = -1 THEN @
                                     ELSE message.nextChunkIndex]} } : TRUE

ReceiverHandleErrorMessage(r, message) ==
    IF ~validateMessage(message, ERROR) THEN ReceiverHandleError(r, "Message validation failed")
    ELSE ReceiverHandleError(r, IF message.errorType = INVALID_PARTY
                                THEN "Invalid party type detected" ELSE "Unknown error")

\* handleMessage: what the Reader's onData callback runs for one frame.
ReceiverHandleMessage(r, data) ==
    CHOOSE out \in {
        IF ~d.ok THEN ReceiverHandleError(r, "Failed to deserialize message")
        ELSE CASE d.msg.messageType = HELLO -> ReceiverHandleHelloMessage(r, d.msg)
               [] d.msg.messageType = ACK -> ReceiverHandleAckMessage(r, d.msg)
               [] d.msg.messageType = DATA -> ReceiverHandleDataMessage(r, d.msg)
               [] d.msg.messageType = ERROR -> ReceiverHandleErrorMessage(r, d.msg)
               [] OTHER -> ReceiverHandleError(r, "Unexpected message type")
        : d \in {MessageOf(data)} } : TRUE

(***************************************************************************)
(* IndexedFileStorage, the ChunkStore.  A database is the object store     *)
(* `files` (keyed by fileName) and the wall clock `now` that Date.now()    *)
(* reads.  An IndexedDB transaction is atomic, so each operator below is   *)
(* one transaction; storeFileChunks is two of them, one after the other.   *)
(* One unit of the clock stands for the default maxAgeMs (7 days) divided  *)
(* by MaxAgeTicks.                                                         *)
(***************************************************************************)
MaxAgeTicks == 1

DefaultMaxFiles == 1

EmptyDb == [files |-> <<>>, now |-> 0]

\* The order of IndexedDB string keys: by code unit, a prefix first.
RECURSIVE KeyLess(_, _)
KeyLess(a, b) ==
    IF b = <<>> THEN FALSE
    ELSE IF a = <<>> THEN TRUE
    ELSE IF Head(a) # Head(b) THEN Head(a) < Head(b)
    ELSE KeyLess(Tail(a), Tail(b))

StoredFileData(fileName, fileSize, mimeType, chunks, now) ==
    [fileName |-> fileName, fileSize |-> fileSize, mimeType |-> mimeType,
     totalChunks |-> Len(chunks),
     chunkSize |-> IF Len(chunks) > 0 THEN Len(chunks[1]) ELSE 0,
     chunks |-> chunks, createdAt |-> now, lastAccessedAt |-> now]

\* store.put(value): the entry under value.fileName is written or replaced.
Put(files, value) ==
    [name \in DOMAIN files \cup {value.fileName} |->
        IF name = value.fileName THEN value ELSE files[name]]

\* store.delete(key) for each key of a set; an absent key is not an error.
DeleteAll(files, names) == [name \in DOMAIN files \ names |-> files[name]]

\* cleanupOldFiles: entries last accessed before the cutoff, and the oldest
\* entries beyond maxFiles, are deleted; the sort is by lastAccessedAt, and
\* the index hands out equal timestamps in key order.
cleanupOldFiles(db, maxAgeMs, maxFiles) ==
    LET files == db.files
        cutoffTime == db.now - maxAgeMs
        Older(a, b) == \/ files[a].lastAccessedAt < files[b].lastAccessedAt
                       \/ /\ files[a].lastAccessedAt = files[b].lastAccessedAt
                          /\ KeyLess(a, b)
        expired == {name \in DOMAIN files : files[name].lastAccessedAt < cutoffTime}
        excess == IF maxFiles # 0 /\ Cardinality(DOMAIN files) > maxFiles
                  THEN {name \in DOMAIN files :
                          Cardinality({other \in DOMAIN files : Older(other, name)})
                              < Cardinality(DOMAIN files) - maxFiles}
                  ELSE {}
        filesToDelete == expired \cup excess
    IN  [db |-> [db EXCEPT !.files = DeleteAll(files, filesToDelete)],
         result |-> Cardinality(filesToDelete)]

\* storeFileChunks after its `await this.cleanupOldFiles()`: the put.
StorePut(db, fileName, fileSize, mimeType, chunks) ==
    [db EXCEPT !.files = Put(@, StoredFileData(fileName, fileSize, mimeType, chunks, db.now))]

\* A faulty storeFileChunks, which cleans up and does not put.
storeFileChunks_NoPut(db, fileName, fileSize, mimeType, chunks) ==
    cleanupOldFiles(db, MaxAgeTicks, DefaultMaxFiles).db

\* storeFileChunks with no other caller in between its two transactions.
storeFileChunks(db, fileName, fileSize, mimeType, chunks) ==
    StorePut(cleanupOldFiles(db, MaxAgeTicks, DefaultMaxFiles).db,
             fileName, fileSize, mimeType, chunks)

\* The answer of getFileChunks when there is no entry.
Null == [absent |-> TRUE]

getFileChunks_CreatesEntry(db, fileName) ==
    LET value == IF fileName \in DOMAIN db.files
                 THEN [db.files[fileName] EXCEPT !.lastAccessedAt = db.now]
                 ELSE StoredFileData(fileName, 0, "", <<>>, db.now)
    IN  [db |-> [db EXCEPT !.files = Put(@, value)],
         result |-> IF fileName \in DOMAIN db.files THEN value ELSE Null]

getFileChunks(db, fileName) ==
    IF fileName \in DOMAIN db.files
    THEN LET result == [db.files[fileName] EXCEPT !.lastAccessedAt = db.now]
         IN  [db |-> [db EXCEPT !.files = Put(@, result)], result |-> result]
    ELSE [db |-> db, result |-> Null]

deleteFileChunks(db, fileName) == [db EXCEPT !.files = DeleteAll(@, {fileName})]

\* getAllKeys: the keys in key order.
getStoredFileSessions(db) ==
    LET names == DOMAIN db.files
    IN  CHOOSE keys \in [1..Cardinality(names) -> names] :
            \A i, j \in 1..Cardinality(names) : i < j => KeyLess(keys[i], keys[j])

RECURSIVE SumOfSizes(_, _)
SumOfSizes(files, names) ==
    IF names = {} THEN 0
    ELSE LET name == CHOOSE n \in names : TRUE
         IN  files[name].fileSize + SumOfSizes(files, names \ {name})

getStorageStats(db) ==
    LET files == db.files
        names == DOMAIN files
    IN  IF names = {}
        THEN [totalFiles |-> 0, totalSize |-> 0, oldestFile |-> 0, newestFile |-> 0]
        ELSE [totalFiles |-> Cardinality(names),
              totalSize |-> SumOfSizes(files, names),
              oldestFile |-> CHOOSE t \in {files[n].createdAt : n \in names} :
                                 \A n \in names : t <= files[n].createdAt,
              newestFile |-> CHOOSE t \in {files[n].createdAt : n \in names} :
                                 \A n \in names : t >= files[n].createdAt]

(***************************************************************************)
(* The system: one FileSender and one FileReceiver joined by a Transport.  *)
(* The frames an engine handed to its Writer reach the peer's Reader in    *)
(* the order written: delivered.R counts the sender's frames the           *)
(* receiver's onData has been called with, delivered.S the receiver's      *)
(* frames given to the sender.  store is the database of the ChunkStore    *)
(* (IndexedFileStorage); used counts the cancel() calls, the               *)
(* re-deliveries, and the foreign frames and Reader errors so far.         *)
(* rcv2 is a second FileReceiver given the same Reader and Writer as rcv   *)
(* (MockChannel.getReceiverIO hands out one MockReader): the Reader keeps  *)
(* the callbacks of the last read(), so once rcv2 has called receive()     *)
(* the sender's frames go to rcv2.  delivered.S2 counts the frames of      *)
(* rcv2 given to the sender.  rcv2 stays idle unless receive() is called.  *)
(* calls holds the calls made on the ChunkStore directly, in the order     *)
(* made, each with its arguments, its position and its answer.  codec is   *)
(* a run of serializeMessage and deserializeMessage on one message.        *)
(***************************************************************************)
VARIABLES snd, rcv, rcv2, delivered, store, used, calls, codec

vars == <<snd, rcv, rcv2, delivered, store, used, calls, codec>>

\* A run of the codec on one message: the message, the frame made of it and
\* the message read back.
CodecIdle == [pc |-> "idle", message |-> Thrown, data |-> <<>>, result |-> Thrown]

Init ==
    /\ codec = CodecIdle
    /\ \E seq \in InitSeqs, chunkSize \in 1..MaxChunkSize : snd = NewSender(seq, chunkSize)
    /\ \E seq \in InitSeqs : rcv = NewReceiver(seq)
    /\ \E seq \in InitSeqs : rcv2 = NewReceiver(seq)
    /\ delivered = [S |-> 0, R |-> 0, S2 |-> 0]
    /\ store = EmptyDb
    /\ calls = <<>>
    /\ used = [cancelS |-> 0, cancelR |-> 0, dup |-> 0, inject |-> 0]

\* sender.send(file)
Send ==
    /\ snd.pc = "idle" /\ snd.state = IDLE
    /\ \E file \in Files : snd' = SenderSend(snd, file)
    /\ UNCHANGED <<codec, calls, rcv2, rcv, delivered, store, used>>

SendChunked ==
    /\ snd.pc = "chunking"
    /\ snd' = SenderSendChunked(snd)
    /\ UNCHANGED <<codec, calls, rcv2, rcv, delivered, store, used>>

\* storeFileChunks resolves (the entry is written) or rejects (logged only).
SendStored ==
    /\ snd.pc = "storing"
    /\ snd' = SenderSendStored(snd)
    /\ \E ok \in BOOLEAN :
          store' = IF ok THEN storeFileChunks(store, snd.fileName, snd.fileSize,
                                              snd.mimeType, snd.chunks)
                   ELSE store
    /\ UNCHANGED <<codec, calls, rcv2, rcv, delivered, used>>

SendSaved ==
    /\ snd.pc = "saving"
    /\ snd' = SenderSendSaved(snd)
    /\ UNCHANGED <<codec, calls, rcv2, rcv, delivered, store, used>>

\* receiver.receive()
Receive ==
    /\ rcv.state = IDLE /\ rcv.promise = "none"
    /\ rcv' = ReceiverReceive(rcv)
    /\ UNCHANGED <<codec, calls, rcv2, snd, delivered, store, used>>

\* The receiver's Reader calls onData with the sender's next frame.
DeliverToReceiver ==
    /\ rcv.reading /\ ~rcv2.reading
    /\ delivered.R < Len(snd.written)
    /\ rcv' = ReceiverHandleMessage(rcv, snd.written[delivered.R + 1])
    /\ delivered' = [delivered EXCEPT !.R = @ + 1]
    /\ UNCHANGED <<codec, calls, rcv2, snd, store, used>>

\* The sender's Reader calls onData with the receiver's next frame.
DeliverToSender ==
    /\ snd.reading
    /\ delivered.S < Len(rcv.written)
    /\ snd' = SenderHandleMessage(snd, rcv.written[delivered.S + 1])
    /\ delivered' = [delivered EXCEPT !.S = @ + 1]
    /\ UNCHANGED <<codec, calls, rcv2, rcv, store, used>>

\* A Writer.write promise of the sender resolves and the handler that
\* awaited it goes on.
SenderAckWritten ==
    /\ snd.conts.ack > 0
    /\ snd' = SenderResumeAck(snd)
    /\ UNCHANGED <<codec, calls, rcv2, rcv, delivered, store, used>>

SenderLastDataWritten ==
    /\ snd.conts.pullLast > 0
    /\ snd' = SenderResumePullLast(snd)
    /\ UNCHANGED <<codec, calls, rcv2, rcv, delivered, store, used>>

\* The delete cleanupStoredChunks asked for is performed, or fails (logged).
StoredChunksDeleted ==
    /\ snd.cleanups > 0
    /\ snd' = [snd EXCEPT !.cleanups = @ - 1]
    /\ \E ok \in BOOLEAN :
          store' = IF ok THEN deleteFileChunks(store, snd.fileName) ELSE store
    /\ UNCHANGED <<codec, calls, rcv2, rcv, delivered, used>>

\* A Writer.write promise of the receiver resolves.
ReceiverAckWritten ==
    /\ rcv.conts.hello > 0
    /\ rcv' = ReceiverResumeHello(rcv)
    /\ UNCHANGED <<codec, calls, rcv2, snd, delivered, store, used>>

ReceiverErrorWritten ==
    /\ rcv.conts.collision > 0
    /\ rcv' = ReceiverResumeCollision(rcv)
    /\ UNCHANGED <<codec, calls, rcv2, snd, delivered, store, used>>

Step ==
    \/ Send \/ SendChunked \/ SendStored \/ SendSaved \/ Receive
    \/ DeliverToReceiver \/ DeliverToSender
    \/ SenderAckWritten \/ SenderLastDataWritten \/ StoredChunksDeleted
    \/ ReceiverAckWritten

\* sender.cancel() and receiver.cancel(), callable at any time.
CancelSender ==
    /\ used.cancelS + used.cancelR < MaxCancels
    /\ snd' = SenderCancel(snd)
    /\ used' = [used EXCEPT !.cancelS = @ + 1]
    /\ UNCHANGED <<codec, calls, rcv2, rcv, delivered, store>>

CancelReceiver ==
    /\ used.cancelS + used.cancelR < MaxCancels
    /\ rcv' = ReceiverCancel(rcv)
    /\ used' = [used EXCEPT !.cancelR = @ + 1]
    /\ UNCHANGED <<codec, calls, rcv2, snd, delivered, store>>

\* The Reader calls onData once more with the frame it delivered last (the
\* camera decodes the same still again).
RedeliverToReceiver ==
    /\ used.dup < MaxDup
    /\ delivered.R > 0
    /\ rcv' = ReceiverHandleMessage(rcv, snd.written[delivered.R])
    /\ used' = [used EXCEPT !.dup = @ + 1]
    /\ UNCHANGED <<codec, calls, rcv2, snd, delivered, store>>

RedeliverToSender ==
    /\ used.dup < MaxDup
    /\ delivered.S > 0
    /\ snd' = SenderHandleMessage(snd, rcv.written[delivered.S])
    /\ used' = [used EXCEPT !.dup = @ + 1]
    /\ UNCHANGED <<codec, calls, rcv2, rcv, delivered, store>>

\* Frames that come from neither engine of this transfer: another party on
\* the same visual channel, a stale or a damaged frame.
TheSessionId == generateSessionId(CHOOSE name \in FileNames : TRUE, DefaultSessionIdLength)

WrongSessionId == <<"W", "R", "O", "N", "G">>

ForeignFrames ==
    <<  <<ERROR, INVALID_PARTY>>,
        <<HELLO, TheSessionId, 100, RECEIVER, V0, <<116>>, 1, "text/plain", 1, 1>>,
        <<ACK, WrongSessionId, 200>>,
        <<ACK, TheSessionId>>,
        <<DATA, TheSessionId, 300, 7, -1, <<0>>>>,
        <<PULL, TheSessionId, 400, 0>>,
        <<HELLO, TheSessionId, 100, SENDER, 1, <<116>>, 1, "text/plain", 1, 1>>  >>

ForeignToSender ==
    /\ snd.reading
    /\ used.inject < MaxInject
    /\ \E i \in 1..Len(ForeignFrames) : snd' = SenderHandleMessage(snd, ForeignFrames[i])
    /\ used' = [used EXCEPT !.inject = @ + 1]
    /\ UNCHANGED <<codec, calls, rcv2, rcv, delivered, store>>

ForeignToReceiver ==
    /\ rcv.reading
    /\ used.inject < MaxInject
    /\ \E i \in 1..Len(ForeignFrames) : rcv' = ReceiverHandleMessage(rcv, ForeignFrames[i])
    /\ used' = [used EXCEPT !.inject = @ + 1]
    /\ UNCHANGED <<codec, calls, rcv2, snd, delivered, store>>

\* The Reader reports an error through onError; it calls neither callback
\* again after that.
SenderReaderError ==
    /\ snd.reading
    /\ used.inject < MaxInject
    /\ snd' = [SenderHandleError(snd, "Connection lost") EXCEPT !.reading = FALSE]
    /\ used' = [used EXCEPT !.inject = @ + 1]
    /\ UNCHANGED <<codec, calls, rcv2, rcv, delivered, store>>

ReceiverReaderError ==
    /\ rcv.reading
    /\ used.inject < MaxInject
    /\ rcv' = [ReceiverHandleError(rcv, "Connection lost") EXCEPT !.reading = FALSE]
    /\ used' = [used EXCEPT !.inject = @ + 1]
    /\ UNCHANGED <<codec, calls, rcv2, snd, delivered, store>>

\* A second send() call on the sender, with the same file, while the first
\* is outstanding: it throws if the state is not IDLE, and runs as the first
\* does otherwise.
SendAgain ==
    /\ snd.promise = "pending" /\ snd.pc2 = "idle"
    /\ snd' = IF snd.state # IDLE
              THEN [snd EXCEPT !.pc2 = "thrown", !.promise2 = "rejected"]
              ELSE SenderSecond(SenderSend(SenderSecond(snd), snd.file))
    /\ UNCHANGED <<codec, calls, rcv, rcv2, delivered, store, used>>

SendAgainChunked ==
    /\ snd.pc2 = "chunking"
    /\ snd' = SenderSecond(SenderSendChunked(SenderSecond(snd)))
    /\ UNCHANGED <<codec, calls, rcv, rcv2, delivered, store, used>>

SendAgainStored ==
    /\ snd.pc2 = "storing"
    /\ snd' = SenderSecond(SenderSendStored(SenderSecond(snd)))
    /\ \E ok \in BOOLEAN :
          store' = IF ok THEN storeFileChunks(store, snd.fileName, snd.fileSize,
                                              snd.mimeType, snd.chunks)
                   ELSE store
    /\ UNCHANGED <<codec, calls, rcv, rcv2, delivered, used>>

SendAgainSaved ==
    /\ snd.pc2 = "saving"
    /\ snd' = SenderSecond(SenderSendSaved(SenderSecond(snd)))
    /\ UNCHANGED <<codec, calls, rcv, rcv2, delivered, store, used>>

\* A second receive() call on the receiver while the first is outstanding.
ReceiveAgain ==
    /\ rcv.promise = "pending" /\ rcv.promise2 = "none"
    /\ rcv' = IF rcv.state # IDLE
              THEN [rcv EXCEPT !.promise2 = "rejected"]
              ELSE [ReceiverReceive(rcv) EXCEPT !.promise2 = "pending"]
    /\ UNCHANGED <<codec, calls, snd, rcv2, delivered, store, used>>

\* receive() on the second receiver, called after the first receiver's, and
\* the frames between the second receiver and the sender.
Receive2 ==
    /\ rcv.promise # "none"
    /\ rcv2.state = IDLE /\ rcv2.promise = "none"
    /\ rcv2' = ReceiverReceive(rcv2)
    /\ UNCHANGED <<codec, calls, snd, rcv, delivered, store, used>>

DeliverToReceiver2 ==
    /\ rcv2.reading
    /\ delivered.R < Len(snd.written)
    /\ rcv2' = ReceiverHandleMessage(rcv2, snd.written[delivered.R + 1])
    /\ delivered' = [delivered EXCEPT !.R = @ + 1]
    /\ UNCHANGED <<codec, calls, snd, rcv, store, used>>

DeliverToSender2 ==
    /\ snd.reading
    /\ delivered.S2 < Len(rcv2.written)
    /\ snd' = SenderHandleMessage(snd, rcv2.written[delivered.S2 + 1])
    /\ delivered' = [delivered EXCEPT !.S2 = @ + 1]
    /\ UNCHANGED <<codec, calls, rcv, rcv2, store, used>>

Receiver2AckWritten ==
    /\ rcv2.conts.hello > 0
    /\ rcv2' = ReceiverResumeHello(rcv2)
    /\ UNCHANGED <<codec, calls, snd, rcv, delivered, store, used>>

\* The loopback transfer: every frame is delivered once, in order.
Next == Step

Spec == Init /\ [][Next]_vars

\* The transfer over a Transport that may deliver a frame more than once.
NextDup == Step \/ RedeliverToReceiver \/ RedeliverToSender

SpecDup == Init /\ [][NextDup]_vars

\* The transfer with cancel() calls.
NextCancel == Step \/ CancelSender \/ CancelReceiver

SpecCancel == Init /\ [][NextCancel]_vars

\* The transfer on a channel that also carries foreign frames and may fail.
NextForeign ==
    \/ Step \/ ForeignToSender \/ ForeignToReceiver \/ ReceiverErrorWritten
    \/ SenderReaderError \/ ReceiverReaderError

SpecForeign == Init /\ [][NextForeign]_vars

\* The steps that need no call from the application: a continuation that is
\* ready to run, or a written frame not yet seen by the peer's Reader.
Pending ==
    \/ SendChunked \/ SendStored \/ SendSaved
    \/ DeliverToReceiver \/ DeliverToSender
    \/ SenderAckWritten \/ SenderLastDataWritten
    \/ ReceiverAckWritten \/ StoredChunksDeleted

\* The event loop runs every continuation that is ready, and the Transport
\* makes every written frame observable to the peer's Reader.
Fairness == WF_vars(Pending)

\* One sender and two receivers on one Transport.
NextShared ==
    \/ Step
    \/ Receive2 \/ DeliverToReceiver2 \/ DeliverToSender2 \/ Receiver2AckWritten

SpecShared == Init /\ [][NextShared]_vars

\* The transfer with a second send() and a second receive() call.
NextAgain ==
    \/ Step
    \/ SendAgain \/ SendAgainChunked \/ SendAgainStored \/ SendAgainSaved
    \/ ReceiveAgain

SpecAgain == Init /\ [][NextAgain]_vars

FairSpec == Spec /\ Fairness

FairSpecDup == SpecDup /\ Fairness

FairSpecCancel == SpecCancel /\ Fairness

(***************************************************************************)
(* Properties.                                                             *)
(***************************************************************************)
FrameTypes(frames) == [i \in 1..Len(frames) |-> frames[i][1]]

IsPrefix(p, q) == Len(p) <= Len(q) /\ \A i \in 1..Len(p) : p[i] = q[i]

Occurs(x, q) == \E i \in 1..Len(q) : q[i] = x

SendCalled == snd.pc # "idle"

ReceiveCalled == rcv.promise # "none"

\* The mime type the sender announced in its HELLO, the first frame it wrote.
AnnouncedMimeType == snd.written[1][8]

\* C1: once receive() has resolved, the file it resolved with has the
\* content, the size and the name of the file given to send() and the mime
\* type announced in HELLO.
C1_RoundTrip ==
    rcv.promise = "resolved" =>
        /\ rcv.result.content = snd.file.content
        /\ FileSize(rcv.result) = FileSize(snd.file)
        /\ rcv.result.name = snd.file.name
        /\ rcv.result.type = AnnouncedMimeType

\* A file of several chunks, the last one short, and of no declared type,
\* has been received.
C1_Witness ==
    /\ rcv.promise = "resolved"
    /\ Len(snd.chunks) >= 2
    /\ Len(snd.chunks[Len(snd.chunks)]) < snd.chunkSize
    /\ snd.file.type = ""
    /\ rcv.result.type = DefaultMimeType
    /\ \E i, j \in 1..Len(snd.file.content) : snd.file.content[i] # snd.file.content[j]

TransferComplete ==
    /\ snd.state = DONE /\ rcv.state = DONE
    /\ snd.promise = "resolved" /\ rcv.promise = "resolved"
    /\ rcv.result.content = snd.file.content

\* C2: with send() and receive() called, no cancel(), and a Transport that
\* delivers every frame (some of them twice), the transfer completes: both
\* engines reach DONE, send() resolves and receive() resolves with the file.
C2_Completes == (SendCalled /\ ReceiveCalled) ~> TransferComplete

\* A transfer of several chunks has completed although a frame was delivered
\* twice.
C2_Witness == TransferComplete /\ used.dup > 0 /\ Len(snd.chunks) >= 2

EmptyInput == SendCalled /\ FileSize(snd.file) = 0

\* C3: for a file of size 0 the frames written are HELLO, ACK by the sender
\* and ACK by the receiver, no PULL and no DATA; both engines reach DONE and
\* receive() resolves with a file of size 0.
C3_EmptyFile ==
    /\ [](EmptyInput =>
            /\ IsPrefix(FrameTypes(snd.written), <<HELLO, ACK>>)
            /\ IsPrefix(FrameTypes(rcv.written), <<ACK>>))
    /\ (EmptyInput /\ ReceiveCalled) ~>
            /\ snd.state = DONE /\ rcv.state = DONE
            /\ rcv.promise = "resolved" /\ FileSize(rcv.result) = 0
            /\ FrameTypes(snd.written) = <<HELLO, ACK>>
            /\ FrameTypes(rcv.written) = <<ACK>>

C3_Witness ==
    /\ EmptyInput
    /\ snd.state = DONE /\ rcv.state = DONE
    /\ rcv.promise = "resolved" /\ FileSize(rcv.result) = 0

\* The chunk indices of the PULL frames the receiver wrote, in order.
RECURSIVE PullIndices(_)
PullIndices(frames) ==
    IF Len(frames) = 0 THEN <<>>
    ELSE (IF Head(frames)[1] = PULL THEN <<Head(frames)[4]>> ELSE <<>>)
            \o PullIndices(Tail(frames))

Count(x, q) == Cardinality({i \in 1..Len(q) : q[i] = x})

\* C4: in a transfer that ended with both engines DONE, the PULL indices the
\* receiver emitted are each of 0..total_chunks-1 once, in non-decreasing
\* order.
C4_PullOrdering ==
    (snd.state = DONE /\ rcv.state = DONE) =>
        LET pulls == PullIndices(rcv.written)
        IN  /\ \A i \in 0..(rcv.totalChunks - 1) : Count(i, pulls) = 1
            /\ \A k \in 1..Len(pulls) : pulls[k] \in 0..(rcv.totalChunks - 1)
            /\ \A k \in 1..(Len(pulls) - 1) : pulls[k] <= pulls[k + 1]

\* C5: after cancel() on an engine whose send()/receive() future is
\* outstanding, that future rejects.  (An engine is CANCELLED only by
\* cancel(), and its future is pending only from a call made before.)
C5_CancelRejects ==
    /\ []((snd.state = CANCELLED /\ snd.promise = "pending") => <>(snd.promise = "rejected"))
    /\ []((rcv.state = CANCELLED /\ rcv.promise = "pending") => <>(rcv.promise = "rejected"))

\* C6: CANCELLED is a sink: no step of a cancelled engine leaves CANCELLED,
\* hands a frame to the Writer or emits an event.
C6_CancelledIsSink ==
    [][/\ snd.state = CANCELLED =>
            /\ snd'.state = CANCELLED
            /\ snd'.written = snd.written
            /\ snd'.events = snd.events
       /\ rcv.state = CANCELLED =>
            /\ rcv'.state = CANCELLED
            /\ rcv'.written = rcv.written
            /\ rcv'.events = rcv.events]_vars

\* C7: a cancel() call, in any state, leaves the engine CANCELLED, emits no
\* event and writes no frame, and one more call would change nothing.
C7_CancelIdempotent ==
    [][/\ used'.cancelS # used.cancelS =>
            /\ snd'.state = CANCELLED
            /\ snd'.events = snd.events
            /\ snd'.written = snd.written
            /\ SenderCancel(snd') = snd'
       /\ used'.cancelR # used.cancelR =>
            /\ rcv'.state = CANCELLED
            /\ rcv'.events = rcv.events
            /\ rcv'.written = rcv.written
            /\ ReceiverCancel(rcv') = rcv']_vars

\* cancel() has been called twice on a sender in mid-transfer, and twice on
\* a receiver.
C7_Witness ==
    \/ used.cancelS >= 2 /\ snd.state = CANCELLED /\ Len(snd.written) >= 2
    \/ used.cancelR >= 2 /\ rcv.state = CANCELLED /\ Len(rcv.written) >= 2

Failed(e) ==
    /\ e.state = ERRORSTATE
    /\ Occurs("error", e.events)
    /\ e.promise = "rejected"

\* C8: an error raised in a message handler or reported by the Reader moves
\* the engine to ERROR, calls onError and rejects the outstanding future.
C8_ErrorsTerminate ==
    /\ Len(snd.errors) > 0 => Failed(snd)
    /\ Len(rcv.errors) > 0 => Failed(rcv)

ErrorFrameSeen(e) ==
    \E i \in 1..Len(e.errors) :
        /\ e.errors[i].msg = "Invalid party type detected"
        /\ e.errors[i].at \in {HANDSHAKE, TRANSFER}

\* C9: an engine that received ERROR(INVALID_PARTY) in HANDSHAKE or TRANSFER
\* is in ERROR (so in neither TRANSFER nor DONE), has called onError and has
\* rejected its future.
C9_ErrorFrameFatal ==
    /\ ErrorFrameSeen(snd) => Failed(snd)
    /\ ErrorFrameSeen(rcv) => Failed(rcv)

\* The receiver's handler of a HELLO from another receiver has run to its end.
CollisionHandled ==
    \E i \in 1..Len(rcv.errors) : rcv.errors[i].msg = "Another receiver detected"

\* C10: a receiver that got a HELLO of party receiver in HANDSHAKE has
\* written ERROR(INVALID_PARTY), has rejected receive(), and is not in
\* TRANSFER.
C10_CollisionRejected ==
    CollisionHandled =>
        /\ Occurs(<<ERROR, INVALID_PARTY>>, rcv.written)
        /\ rcv.promise = "rejected"
        /\ rcv.state # TRANSFER

\* The HELLO of another receiver, as a frame on the wire.
HelloFromReceiver == ForeignFrames[2]

\* C11: a step in which a sender in HANDSHAKE handles a HELLO of party
\* receiver leaves an ERROR(INVALID_PARTY) frame written by the sender.
C11_SenderCollision ==
    [][(/\ snd.state = HANDSHAKE
        /\ used'.inject # used.inject
        /\ snd' = SenderHandleMessage(snd, HelloFromReceiver))
       => Occurs(<<ERROR, INVALID_PARTY>>, snd'.written)]_vars

\* Both receivers had called receive() when the sender's HELLO arrived: the
\* second one has answered it.
BothReceiversJoined ==
    /\ rcv.promise # "none" /\ rcv2.promise # "none"
    /\ Len(rcv2.written) >= 1

\* C12: with two receivers on the Transport of one sender, the sender is
\* never DONE.
C12_TwoReceivers == BothReceiversJoined => snd.state # DONE

\* C13: a send() or receive() call made while an earlier one is outstanding
\* has rejected, and the sender has written at most one HELLO.
C13_OneCallAtATime ==
    /\ snd.pc2 # "idle" => snd.promise2 = "rejected"
    /\ rcv.promise2 # "none" => rcv.promise2 = "rejected"
    /\ Count(HELLO, FrameTypes(snd.written)) <= 1

\* C14: a handler for an inbound frame starts only when no earlier handler of
\* the same engine is still suspended at its awaited Writer.write.
C14_HandlersSerialized ==
    [][/\ (delivered'.S # delivered.S \/ delivered'.S2 # delivered.S2) => snd.conts = NoConts
       /\ (delivered'.R # delivered.R /\ rcv' # rcv) => rcv.conts = NoConts]_vars

\* C15: a frame delivered a second time causes no action: the engine that
\* receives it writes no frame and emits no event for it.
C15_DuplicateIgnored ==
    [][used'.dup # used.dup =>
          /\ snd'.written = snd.written /\ snd'.events = snd.events
          /\ rcv'.written = rcv.written /\ rcv'.events = rcv.events]_vars

\* ---------------------------------------------------------------------------
\* Resuming from stored chunks.

MaxStoredChunks == 2

PROTOCOL_ERROR == "protocol_error"

SESSION_EXPIRED == "session_expired"

RECURSIVE TotalSize(_)
TotalSize(chunks) ==
    IF chunks = <<>> THEN 0 ELSE Len(Head(chunks)) + TotalSize(Tail(chunks))

Abs(n) == IF n < 0 THEN 0 - n ELSE n

validateChunks(chunks, expectedFileSize, expectedChunkSize) ==
    IF Len(chunks) = 0 THEN FALSE
    ELSE IF Abs(TotalSize(chunks) - expectedFileSize) > expectedChunkSize THEN FALSE
    ELSE IF \E i \in 1..(Len(chunks) - 1) : Len(chunks[i]) # expectedChunkSize THEN FALSE
    ELSE IF Len(chunks[Len(chunks)]) > expectedChunkSize THEN FALSE
    ELSE TRUE

\* sendResumable(sessionData) up to the awaited write of HELLO, or its throw.
SenderSendResumable(s, sessionData) ==
    IF s.state # IDLE
    THEN [s EXCEPT !.thrown = PROTOCOL_ERROR]
    ELSE IF ~validateChunks(sessionData.chunks, sessionData.fileSize, sessionData.chunkSize)
    THEN [s EXCEPT !.thrown = PROTOCOL_ERROR, !.promise = "rejected", !.pc = "thrown"]
    ELSE SenderStartHandshake(
             [s EXCEPT !.sessionId = sessionData.sessionId,
                       !.fileName = sessionData.fileName,
                       !.fileSize = sessionData.fileSize,
                       !.mimeType = sessionData.mimeType,
                       !.chunks = sessionData.chunks,
                       !.sentChunks = sessionData.sentChunks,
                       !.isResumedSession = TRUE,
                       !.file = NoFile,
                       !.hasCallbacks = TRUE, !.owner = 1,
                       !.promise = "pending", !.pc = "started"])

\* Stored chunk lists, well-formed or not: up to MaxStoredChunks chunks of
\* 0 .. MaxChunkSize + 1 bytes each.
StoredChunks == SeqsUpTo(UNION {[1..n -> {0}] : n \in 0..(MaxChunkSize + 1)}, MaxStoredChunks)

ResumableSessions ==
    {[sessionId |-> TheSessionId, fileName |-> name, fileSize |-> fileSize,
      mimeType |-> "text/plain", totalChunks |-> Len(chunks),
      chunkSize |-> chunkSize, chunks |-> chunks, sentChunks |-> 0] :
        name \in FileNames, fileSize \in 0..(MaxFileLen + 1),
        chunkSize \in 1..MaxChunkSize, chunks \in StoredChunks}

\* sender.sendResumable(sessionData)
SendResumable ==
    /\ snd.pc = "idle" /\ snd.promise = "none"
    /\ \E sessionData \in ResumableSessions : snd' = SenderSendResumable(snd, sessionData)
    /\ UNCHANGED <<codec, calls, rcv2, rcv, delivered, store, used>>

NextResume == Step \/ SendResumable

SpecResume == Init /\ [][NextResume]_vars

\* The integrity rule for stored chunks: every chunk but the last has exactly
\* chunkSize bytes, the last has at most chunkSize, and the total differs
\* from fileSize by at most one chunkSize.
ViolatesIntegrityRule(sessionData) ==
    LET chunks == sessionData.chunks
    IN  \/ \E i \in 1..(Len(chunks) - 1) : Len(chunks[i]) # sessionData.chunkSize
        \/ Len(chunks) > 0 /\ Len(chunks[Len(chunks)]) > sessionData.chunkSize
        \/ Abs(TotalSize(chunks) - sessionData.fileSize) > sessionData.chunkSize

\* C16: sendResumable() with stored chunks that violate the integrity rule
\* fails with SessionExpired, writes no frame, does not start the Reader and
\* leaves the sender IDLE.
C16_ResumeValidation ==
    [][\A sessionData \in ResumableSessions :
          (/\ snd.pc = "idle" /\ snd.promise = "none"
           /\ ViolatesIntegrityRule(sessionData)
           /\ snd' = SenderSendResumable(snd, sessionData)
           /\ snd' # snd)
          => /\ snd'.promise = "rejected"
             /\ snd'.thrown = SESSION_EXPIRED
             /\ snd'.written = <<>>
             /\ ~snd'.reading
             /\ snd'.state = IDLE]_vars

\* ---------------------------------------------------------------------------
\* Callers of the ChunkStore.  A call of one transaction is made and answered
\* in one step; storeFileChunks takes two, and other calls may come between.

MaxCalls == 3

MaxClock == 2

StoreNames == FileNames \cup {<<97>>, <<98>>}

StoreContents == {<<<<0>>>>, <<<<0, 255>>, <<0>>>>}

NoArgs == [fileName |-> <<>>, fileSize |-> 0, mimeType |-> "", chunks |-> <<>>]

\* A call; `after` is the number of earlier calls that had been answered when
\* this one was made, `at` the time it was made.
Call(op, args, pc, result) ==
    [op |-> op, args |-> args, pc |-> pc, result |-> result,
     after |-> Cardinality({i \in DOMAIN calls : calls[i].pc = "done"}),
     at |-> store.now]

\* No call was made while another was unanswered.
OneAfterTheOther == \A i \in DOMAIN calls : calls[i].after = i - 1

\* storage.storeFileChunks(...): the call and its cleanupOldFiles transaction.
StoreFileChunks ==
    /\ Len(calls) < MaxCalls
    /\ \E fileName \in StoreNames, chunks \in StoreContents :
          calls' = Append(calls, Call("store",
                                      [fileName |-> fileName, fileSize |-> TotalSize(chunks),
                                       mimeType |-> "text/plain", chunks |-> chunks],
                                      "cleaned", Null))
    /\ store' = cleanupOldFiles(store, MaxAgeTicks, DefaultMaxFiles).db
    /\ UNCHANGED <<codec, snd, rcv, rcv2, delivered, used>>

\* storeFileChunks: its put transaction; the call resolves.
StoreFileChunksPut ==
    \E i \in DOMAIN calls :
        /\ calls[i].pc = "cleaned"
        /\ store' = StorePut(store, calls[i].args.fileName, calls[i].args.fileSize,
                             calls[i].args.mimeType, calls[i].args.chunks)
        /\ calls' = [calls EXCEPT ![i].pc = "done", ![i].result = "ok"]
        /\ UNCHANGED <<codec, snd, rcv, rcv2, delivered, used>>

GetFileChunks ==
    /\ Len(calls) < MaxCalls
    /\ \E fileName \in StoreNames :
          LET out == getFileChunks(store, fileName)
          IN  /\ store' = out.db
              /\ calls' = Append(calls, Call("get", [NoArgs EXCEPT !.fileName = fileName],
                                             "done", out.result))
    /\ UNCHANGED <<codec, snd, rcv, rcv2, delivered, used>>

DeleteFileChunks ==
    /\ Len(calls) < MaxCalls
    /\ \E fileName \in StoreNames :
          /\ store' = deleteFileChunks(store, fileName)
          /\ calls' = Append(calls, Call("delete", [NoArgs EXCEPT !.fileName = fileName],
                                         "done", "ok"))
    /\ UNCHANGED <<codec, snd, rcv, rcv2, delivered, used>>

GetStoredFileSessions ==
    /\ Len(calls) < MaxCalls
    /\ calls' = Append(calls, Call("list", NoArgs, "done", getStoredFileSessions(store)))
    /\ UNCHANGED <<codec, snd, rcv, rcv2, delivered, store, used>>

GetStorageStats ==
    /\ Len(calls) < MaxCalls
    /\ calls' = Append(calls, Call("stats", NoArgs, "done", getStorageStats(store)))
    /\ UNCHANGED <<codec, snd, rcv, rcv2, delivered, store, used>>

\* storage.cleanupOldFiles() with the default options.
CleanupOldFiles ==
    /\ Len(calls) < MaxCalls
    /\ LET out == cleanupOldFiles(store, MaxAgeTicks, DefaultMaxFiles)
       IN  /\ store' = out.db
           /\ calls' = Append(calls, Call("evict", NoArgs, "done", out.result))
    /\ UNCHANGED <<codec, snd, rcv, rcv2, delivered, used>>

\* Time passes.
Tick ==
    /\ store.now < MaxClock
    /\ store' = [store EXCEPT !.now = @ + 1]
    /\ UNCHANGED <<codec, snd, rcv, rcv2, delivered, used, calls>>

NextStore ==
    \/ StoreFileChunks \/ StoreFileChunksPut \/ GetFileChunks \/ DeleteFileChunks
    \/ GetStoredFileSessions \/ GetStorageStats \/ CleanupOldFiles \/ Tick

SpecStore == Init /\ [][NextStore]_vars

\* C17: with the default options, the ChunkStore holds at most one entry after
\* any sequence of store() calls.
C17_AtMostOneEntry ==
    (/\ OneAfterTheOther
     /\ \A i \in DOMAIN calls : calls[i].op = "store" /\ calls[i].pc = "done")
        => Cardinality(DOMAIN store.files) <= DefaultMaxFiles

\* ---------------------------------------------------------------------------
\* The calls made so far, run one at a time: `order` lists the calls, `times`
\* gives the clock at each of them.

ApplyCall(db, call) ==
    CASE call.op = "store" ->
             [db |-> storeFileChunks(db, call.args.fileName, call.args.fileSize,
                                     call.args.mimeType, call.args.chunks),
              result |-> "ok"]
      [] call.op = "get" -> getFileChunks(db, call.args.fileName)
      [] call.op = "delete" ->
             [db |-> deleteFileChunks(db, call.args.fileName), result |-> "ok"]
      [] call.op = "list" -> [db |-> db, result |-> getStoredFileSessions(db)]
      [] call.op = "stats" -> [db |-> db, result |-> getStorageStats(db)]
      [] call.op = "evict" -> cleanupOldFiles(db, MaxAgeTicks, DefaultMaxFiles)

RECURSIVE OneAtATime(_, _, _, _)
OneAtATime(db, order, times, results) ==
    IF order = <<>> THEN [db |-> db, results |-> results]
    ELSE LET out == ApplyCall([db EXCEPT !.now = Head(times)], calls[Head(order)])
         IN  OneAtATime(out.db, Tail(order), Tail(times),
                        [results EXCEPT ![Head(order)] = out.result])

Orders(n) == {order \in [1..n -> 1..n] : \A i, j \in 1..n : i # j => order[i] # order[j]}

Times(n) == {times \in [1..n -> 0..MaxClock] : \A i, j \in 1..n : i < j => times[i] <= times[j]}

\* An entry, an answer and the object store without their timestamps.
Content(value) ==
    [fileName |-> value.fileName, fileSize |-> value.fileSize, mimeType |-> value.mimeType,
     totalChunks |-> value.totalChunks, chunkSize |-> value.chunkSize,
     chunks |-> value.chunks]

Answer(op, result) ==
    CASE op = "get" -> IF result = Null THEN Null ELSE Content(result)
      [] op = "stats" -> [totalFiles |-> result.totalFiles, totalSize |-> result.totalSize]
      [] OTHER -> result

StoreContent(files) == [name \in DOMAIN files |-> Content(files[name])]

AllAnswered == \A i \in DOMAIN calls : calls[i].pc = "done"

SomeOrderExplains ==
    \E order \in Orders(Len(calls)), times \in Times(Len(calls)) :
        LET run == OneAtATime(EmptyDb, order, times, [i \in DOMAIN calls |-> Null])
        IN  /\ StoreContent(run.db.files) = StoreContent(store.files)
            /\ \A i \in DOMAIN calls :
                  Answer(calls[i].op, run.results[i]) = Answer(calls[i].op, calls[i].result)

\* C18: the operations are atomic for concurrent callers: once every call has
\* been answered, the entries of the store and every answer are those of the
\* same calls made one at a time in some order (timestamps aside).
C18_Linearizable == AllAnswered => SomeOrderExplains

\* ---------------------------------------------------------------------------
\* The ChunkStore as a map, for calls made one after the other.

IsCall(i, op, fileName) ==
    i \in DOMAIN calls /\ calls[i].op = op /\ calls[i].args.fileName = fileName

\* The name was stored before call k and not deleted since.
StoredBefore(k, fileName) ==
    \E j \in 1..(k - 1) :
        /\ IsCall(j, "store", fileName)
        /\ \A d \in (j + 1)..(k - 1) : ~IsCall(d, "delete", fileName)

StoreThenGet(k) ==
    \A fileName \in StoreNames :
        (IsCall(k - 1, "store", fileName) /\ IsCall(k, "get", fileName))
        => /\ calls[k].result # Null
           /\ calls[k].result.fileName = fileName
           /\ calls[k].result.fileSize = calls[k - 1].args.fileSize
           /\ calls[k].result.mimeType = calls[k - 1].args.mimeType
           /\ calls[k].result.chunks = calls[k - 1].args.chunks
           /\ calls[k].result.totalChunks = Len(calls[k - 1].args.chunks)
           /\ Content(store.files[fileName]) = Content(calls[k].result)

GetOfAbsent(k) ==
    \A fileName \in StoreNames :
        (IsCall(k, "get", fileName) /\ ~StoredBefore(k, fileName))
        => calls[k].result = Null /\ fileName \notin DOMAIN store.files

DeleteSucceeds(k) ==
    \A fileName \in StoreNames :
        IsCall(k, "delete", fileName)
        => calls[k].result = "ok" /\ fileName \notin DOMAIN store.files

TwoStored ==
    /\ Len(calls) >= 2
    /\ calls[1].op = "store" /\ calls[2].op = "store"
    /\ calls[1].args.fileName # calls[2].args.fileName

\* The second store() is called before the first entry is of the maximum age.
InTime == calls[2].at - calls[1].at <= MaxAgeTicks

BothListed(k) ==
    LET names == {calls[1].args.fileName, calls[2].args.fileName}
        keys == getStoredFileSessions(store)
    IN  /\ k = 2 => /\ {keys[i] : i \in DOMAIN keys} = names
                    /\ getStorageStats(store).totalFiles = 2
                    /\ getStorageStats(store).totalSize
                           = calls[1].args.fileSize + calls[2].args.fileSize
        /\ (k = 3 /\ calls[3].op = "list")
               => {calls[3].result[i] : i \in DOMAIN calls[3].result} = names
        /\ (k = 3 /\ calls[3].op = "stats") => calls[3].result.totalFiles = 2

\* C19: for calls made one after the other, the ChunkStore is a map keyed by
\* file name: get right after store returns what was stored, with totalChunks
\* the number of chunks; get of a name never stored, or deleted since, returns
\* null and creates no entry; delete succeeds whether or not the name is
\* there; two distinct names stored on an empty store (within the maximum
\* age) are both listed and both counted.
C19_StoreIsAMap ==
    (OneAfterTheOther /\ AllAnswered /\ calls # <<>>)
    => LET k == Len(calls)
       IN  /\ StoreThenGet(k)
           /\ GetOfAbsent(k)
           /\ DeleteSucceeds(k)
           /\ (TwoStored /\ InTime) => BothListed(k)

\* C19 as stated, whatever the time between the two store() calls.
C19_AtAnyTime ==
    (OneAfterTheOther /\ AllAnswered /\ calls # <<>>)
    => LET k == Len(calls)
       IN  /\ StoreThenGet(k)
           /\ GetOfAbsent(k)
           /\ DeleteSucceeds(k)
           /\ TwoStored => BothListed(k)

C19_Witness ==
    /\ OneAfterTheOther /\ AllAnswered /\ Len(calls) = 3
    /\ TwoStored /\ InTime
    /\ IsCall(3, "get", calls[2].args.fileName)
    /\ calls[3].result # Null
    /\ Cardinality(DOMAIN store.files) = 2

\* ---------------------------------------------------------------------------
\* The codec on its own: a message is drawn, serialized and read back.

CodecNumbers == {0, 1, 127, 128, 255, 256, 999, 65535, 65536}

CodecIndices == {-32769, -129, -33, -1, 0, 5}

\* "", "A", "ABC12", "t.t", one- two- and three-byte characters, 32 characters.
CodecStrings ==
    {<<>>, <<65>>, <<65, 66, 67, 49, 50>>, <<116, 46, 116>>, <<127, 233, 8364>>,
     [i \in 1..32 |-> 97]}

CodecPayloads == {<<>>, <<0>>, <<255>>, <<0, 255>>, <<1, 2, 3, 4, 5>>, <<128, 127, 0, 255>>}

CodecMessages ==
    {createHelloMessage(sessionId, sequenceNumber, partyType, V0, fileName, fileSize,
                        mimeType, 16, 64) :
        sessionId \in CodecStrings, sequenceNumber \in {0, 999},
        partyType \in {SENDER, RECEIVER}, fileName \in CodecStrings,
        fileSize \in CodecNumbers, mimeType \in {<<>>, <<116, 47, 112>>}}
    \cup {createAckMessage(sessionId, sequenceNumber) :
            sessionId \in CodecStrings, sequenceNumber \in CodecNumbers}
    \cup {createPullMessage(sessionId, sequenceNumber, chunkIndex) :
            sessionId \in CodecStrings, sequenceNumber \in CodecNumbers,
            chunkIndex \in CodecIndices}
    \cup {createDataMessage(sessionId, sequenceNumber, chunkIndex, nextChunkIndex, data) :
            sessionId \in CodecStrings, sequenceNumber \in {0, 999},
            chunkIndex \in {0, 5}, nextChunkIndex \in CodecIndices, data \in CodecPayloads}
    \cup {createErrorMessage(errorType) : errorType \in CodecNumbers}

InitCodec ==
    /\ \E message \in CodecMessages : codec = [CodecIdle EXCEPT !.pc = "message", !.message = message]
    /\ \E seq \in InitSeqs : snd = NewSender(seq, MaxChunkSize)
    /\ \E seq \in InitSeqs : rcv = NewReceiver(seq)
    /\ \E seq \in InitSeqs : rcv2 = NewReceiver(seq)
    /\ delivered = [S |-> 0, R |-> 0, S2 |-> 0]
    /\ store = EmptyDb
    /\ calls = <<>>
    /\ used = [cancelS |-> 0, cancelR |-> 0, dup |-> 0, inject |-> 0]

Serialize ==
    /\ codec.pc = "message"
    /\ codec' = [codec EXCEPT !.pc = "serialized", !.data = serializeMessage(codec.message)]
    /\ UNCHANGED <<snd, rcv, rcv2, delivered, store, used, calls>>

Deserialize ==
    /\ codec.pc = "serialized"
    /\ codec' = [codec EXCEPT !.pc = "deserialized", !.result = deserializeMessage(codec.data)]
    /\ UNCHANGED <<snd, rcv, rcv2, delivered, store, used, calls>>

NextCodec == Serialize \/ Deserialize

SpecCodec == InitCodec /\ [][NextCodec]_vars

\* C20: for every message of each of the five tags, deserializeMessage of
\* serializeMessage of the message is a message of the same tag with equal
\* fields, each of the runtime type it had.
C20_CodecRoundTrip ==
    codec.pc = "deserialized"
    => /\ codec.result.ok
       /\ codec.result.msg.messageType = codec.message.messageType
       /\ codec.result.msg = codec.message
       /\ DecodedTuple(codec.data).value = Arr(TypedTuple(codec.message))

C20_Witness ==
    /\ codec.pc = "deserialized"
    /\ codec.message.messageType = DATA
    /\ codec.message.data = <<128, 127, 0, 255>>
    /\ codec.message.nextChunkIndex = -1
    /\ codec.message.sessionId = <<127, 233, 8364>>
    /\ codec.result.ok

\* ---------------------------------------------------------------------------
\* createMessageFromTuple on its own: a tuple is drawn and decoded.

MaxTupleLen == 11

MaxTag == 6

\* Tuples of every length up to MaxTupleLen under every tag from -1 to MaxTag,
\* and the empty tuple; the items after the tag are not looked at.
Tuples ==
    {<<>>} \cup {[i \in 1..n |-> IF i = 1 THEN tag ELSE item] :
                    n \in 1..MaxTupleLen, tag \in -1..MaxTag, item \in {0, 7}}

InitTuple ==
    /\ \E tuple \in Tuples : codec = [CodecIdle EXCEPT !.pc = "tuple", !.data = tuple]
    /\ \E seq \in InitSeqs : snd = NewSender(seq, MaxChunkSize)
    /\ \E seq \in InitSeqs : rcv = NewReceiver(seq)
    /\ \E seq \in InitSeqs : rcv2 = NewReceiver(seq)
    /\ delivered = [S |-> 0, R |-> 0, S2 |-> 0]
    /\ store = EmptyDb
    /\ calls = <<>>
    /\ used = [cancelS |-> 0, cancelR |-> 0, dup |-> 0, inject |-> 0]

CreateMessageFromTuple ==
    /\ codec.pc = "tuple"
    /\ codec' = [codec EXCEPT !.pc = "created", !.result = createMessageFromTuple(codec.data)]
    /\ UNCHANGED <<snd, rcv, rcv2, delivered, store, used, calls>>

SpecTuple == InitTuple /\ [][CreateMessageFromTuple]_vars

\* The exact number of items under each tag: HELLO 10, ACK 3, PULL 4, DATA 6,
\* ERROR 2.
ExactArity == <<10, 3, 4, 6, 2>>

WellFormed(tuple) ==
    /\ Len(tuple) > 0
    /\ tuple[1] \in 0..4
    /\ Len(tuple) = ExactArity[tuple[1] + 1]

\* C21: decoding throws for the empty tuple, for a tag outside 0..4 and for a
\* length other than the tag's exact arity, and returns a message of the
\* tuple's tag for every other tuple.
C21_TupleArity ==
    codec.pc = "created"
    => /\ codec.result.ok <=> WellFormed(codec.data)
       /\ codec.result.ok => codec.result.msg.messageType = codec.data[1]

C21_Witness ==
    /\ codec.pc = "created"
    /\ Len(codec.data) = 7 /\ codec.data[1] = DATA
    /\ ~codec.result.ok

\* ---------------------------------------------------------------------------
\* The chunker on its own: a file and a chunk size are drawn, the file is
\* chunked and the chunks are assembled.  The chunk size is the sender's
\* option; it goes from 1 to beyond the longest file.

InitChunker ==
    /\ \E file \in Files : codec = [CodecIdle EXCEPT !.pc = "file", !.message = file]
    /\ \E seq \in InitSeqs, chunkSize \in 1..(MaxFileLen + 1) : snd = NewSender(seq, chunkSize)
    /\ \E seq \in InitSeqs : rcv = NewReceiver(seq)
    /\ \E seq \in InitSeqs : rcv2 = NewReceiver(seq)
    /\ delivered = [S |-> 0, R |-> 0, S2 |-> 0]
    /\ store = EmptyDb
    /\ calls = <<>>
    /\ used = [cancelS |-> 0, cancelR |-> 0, dup |-> 0, inject |-> 0]

ChunkFile ==
    /\ codec.pc = "file"
    /\ codec' = [codec EXCEPT !.pc = "chunked", !.data = chunkFile(codec.message, snd.chunkSize)]
    /\ UNCHANGED <<snd, rcv, rcv2, delivered, store, used, calls>>

AssembleFile ==
    /\ codec.pc = "chunked"
    /\ codec' = [codec EXCEPT !.pc = "assembled",
                              !.result = assembleFile(codec.data, codec.message.name,
                                                      codec.message.type)]
    /\ UNCHANGED <<snd, rcv, rcv2, delivered, store, used, calls>>

NextChunker == ChunkFile \/ AssembleFile

SpecChunker == InitChunker /\ [][NextChunker]_vars

\* C22: chunkFile gives ceil(len / s) chunks, each but the last of s bytes,
\* the last of 1 to s bytes, and assembleFile of them has the file's content.
C22_ChunkAssemble ==
    LET size == Len(codec.message.content)
        s == snd.chunkSize
        chunks == codec.data
        n == Len(chunks)
    IN  /\ codec.pc \in {"chunked", "assembled"}
           => /\ n = (size + s - 1) \div s
              /\ \A i \in 1..(n - 1) : Len(chunks[i]) = s
              /\ n > 0 => Len(chunks[n]) >= 1 /\ Len(chunks[n]) <= s
        /\ codec.pc = "assembled" => codec.result.content = codec.message.content

C22_Witness ==
    /\ codec.pc = "assembled"
    /\ Len(codec.message.content) = 3 /\ snd.chunkSize = 2
    /\ Len(codec.data) = 2 /\ Len(codec.data[2]) = 1

\* ---------------------------------------------------------------------------
\* The transfer with PULL frames for any index, in and out of range, reaching
\* the sender besides the receiver's own.

PullIndexes == -1..(MaxFileLen + 1)

PullFrame(s, chunkIndex) == FrameOf(createPullMessage(s.sessionId, 400, chunkIndex))

PullToSender ==
    /\ snd.reading
    /\ used.inject < MaxInject
    /\ \E chunkIndex \in PullIndexes : snd' = SenderHandleMessage(snd, PullFrame(snd, chunkIndex))
    /\ used' = [used EXCEPT !.inject = @ + 1]
    /\ UNCHANGED <<rcv, rcv2, delivered, store, calls, codec>>

NextPull == Step \/ PullToSender

SpecPull == Init /\ [][NextPull]_vars

\* What a sender `s` in TRANSFER has done, as `t`, for a PULL of its session.
PullAnswered(s, t, chunkIndex) ==
    LET totalChunks == Len(s.chunks)
        inRange == chunkIndex >= 0 /\ chunkIndex < totalChunks
        next == IF inRange /\ chunkIndex + 1 < totalChunks THEN chunkIndex + 1 ELSE -1
        payload == IF inRange THEN s.chunks[chunkIndex + 1] ELSE <<>>
    IN  /\ Len(t.written) = Len(s.written) + 1
        /\ t.written[Len(t.written)]
               = <<DATA, s.sessionId, s.sequenceNumber, chunkIndex, next, payload>>
        /\ t.state = TRANSFER
        /\ t.conts.pullLast = s.conts.pullLast + (IF next = -1 THEN 1 ELSE 0)

\* C23: a sender in TRANSFER answers a PULL(i) of its session with
\* DATA(i, i + 1 or -1 for the last index, chunks[i]) when i is in range and
\* with DATA(i, -1, empty) when it is not, and goes to DONE after that write,
\* when the write has resolved, exactly when next is -1.
C23_PullAnswer ==
    [][/\ \A chunkIndex \in PullIndexes :
             (/\ snd.state = TRANSFER
              /\ used'.inject # used.inject
              /\ snd' = SenderHandleMessage(snd, PullFrame(snd, chunkIndex)))
             => PullAnswered(snd, snd', chunkIndex)
       /\ (/\ snd.state = TRANSFER
           /\ delivered'.S # delivered.S
           /\ rcv.written[delivered'.S][1] = PULL
           /\ rcv.written[delivered'.S][2] = snd.sessionId)
          => PullAnswered(snd, snd', rcv.written[delivered'.S][4])
       /\ snd'.conts.pullLast < snd.conts.pullLast => snd'.state = DONE
       /\ (snd.state = TRANSFER /\ snd'.state = DONE)
          => \/ snd'.conts.pullLast < snd.conts.pullLast
             \/ snd'.conts.ack < snd.conts.ack /\ Len(snd.chunks) = 0]_vars

C23_Witness ==
    /\ snd.state = DONE
    /\ used.inject = 1
    /\ Len(snd.chunks) = 2
    /\ snd.written[Len(snd.written)] = <<DATA, snd.sessionId, snd.sequenceNumber - 1, 3, -1, <<>>>>

\* The DATA frames an engine has written, and the PULL frames the sender's
\* Reader has handed to it.
DataCount(s) == Cardinality({k \in 1..Len(s.written) : s.written[k][1] = DATA})

PullsReceived ==
    Cardinality({k \in 1..delivered.S : rcv.written[k][1] = PULL}) + used.inject

\* The step is the sender in TRANSFER processing a PULL for `chunkIndex`.
PullProcessed(chunkIndex) ==
    /\ snd.state = TRANSFER
    /\ \/ /\ delivered'.S = delivered.S + 1
          /\ rcv.written[delivered'.S][1] = PULL
          /\ rcv.written[delivered'.S][4] = chunkIndex
       \/ /\ used'.inject = used.inject + 1
          /\ snd' = SenderHandleMessage(snd, PullFrame(snd, chunkIndex))

\* C24: the sender writes no unsolicited DATA: it has written at most as many
\* DATA frames as it was handed PULL frames, every step that writes a DATA is
\* the processing of one PULL in TRANSFER and writes one DATA, and that DATA
\* carries the PULL's chunk index.
C24_NoUnsolicitedData ==
    /\ [](DataCount(snd) <= PullsReceived)
    /\ [][Len(snd'.written) # Len(snd.written) /\ DataCount(snd') # DataCount(snd)
          => /\ DataCount(snd') = DataCount(snd) + 1
             /\ Len(snd'.written) = Len(snd.written) + 1
             /\ \E chunkIndex \in PullIndexes :
                   /\ PullProcessed(chunkIndex)
                   /\ snd'.written[Len(snd'.written)][4] = chunkIndex]_vars

C24_Witness ==
    /\ DataCount(snd) = 3
    /\ PullsReceived = 3
    /\ used.inject = 1
    /\ snd.state = TRANSFER

\* ---------------------------------------------------------------------------
\* The transfer with handshake frames of every kind reaching the receiver:
\* HELLO from each party and protocol version, announcing no chunk or one,
\* and ACK for its session, for another and for the empty session id.

UnknownParty == 2

UnknownVersion == 1

HandshakeFrames ==
    {<<HELLO, TheSessionId, 100, partyType, protocolVersion, <<116>>, totalChunks,
       "text/plain", totalChunks, 1>> :
         partyType \in {SENDER, RECEIVER, UnknownParty},
         protocolVersion \in {V0, UnknownVersion},
         totalChunks \in {0, 1}}
    \cup {<<ACK, sessionId, 200>> : sessionId \in {TheSessionId, WrongSessionId, <<>>}}

HandshakeToReceiver ==
    /\ rcv.reading
    /\ used.inject < MaxInject
    /\ \E frame \in HandshakeFrames : rcv' = ReceiverHandleMessage(rcv, frame)
    /\ used' = [used EXCEPT !.inject = @ + 1]
    /\ UNCHANGED <<snd, rcv2, delivered, store, calls, codec>>

NextHandshake == Step \/ ReceiverErrorWritten \/ HandshakeToReceiver

SpecHandshake == Init /\ [][NextHandshake]_vars

\* The step is the receiver's handleMessage for `frame`.
ReceiverHandles(frame) ==
    \/ /\ delivered'.R = delivered.R + 1
       /\ frame = snd.written[delivered'.R]
    \/ /\ used'.inject = used.inject + 1
       /\ rcv' = ReceiverHandleMessage(rcv, frame)

InboundFrames == HandshakeFrames \cup {snd.written[k] : k \in 1..Len(snd.written)}

\* What HELLO announces, as the receiver keeps it.
Announced(r) ==
    <<r.sessionId, r.fileName, r.fileSize, r.mimeType, r.totalChunks, r.chunkSize>>

IsHello(frame) == Len(frame) = 10 /\ frame[1] = HELLO

\* C25: a receiver in HANDSHAKE that handles a HELLO of party sender and
\* version 0 records its session id and metadata, writes one ACK with that
\* session id and stays in HANDSHAKE; it leaves HANDSHAKE only by handling an
\* ACK whose session id is its own, to TRANSFER with PULL(0) written when
\* totalChunks > 0 and to DONE with nothing written when totalChunks = 0; a
\* HELLO of another party or version makes it write no ACK and record nothing.
C25_ReceiverHandshake ==
    [][/\ \A frame \in InboundFrames :
             (rcv.state = HANDSHAKE /\ IsHello(frame) /\ ReceiverHandles(frame))
             => IF frame[4] = SENDER /\ frame[5] = V0
                THEN /\ Announced(rcv') = <<frame[2], frame[6], frame[7], frame[8],
                                            frame[9], frame[10]>>
                     /\ rcv'.written = Append(rcv.written,
                                              <<ACK, frame[2], rcv.sequenceNumber>>)
                     /\ rcv'.state = HANDSHAKE
                ELSE /\ Announced(rcv') = Announced(rcv)
                     /\ rcv'.state = HANDSHAKE
                     /\ \/ rcv'.written = rcv.written
                        \/ /\ Len(rcv'.written) = Len(rcv.written) + 1
                           /\ rcv'.written[Len(rcv'.written)][1] # ACK
       /\ (rcv.state = HANDSHAKE /\ rcv'.state # HANDSHAKE)
          => /\ \E frame \in InboundFrames :
                   /\ ReceiverHandles(frame)
                   /\ Len(frame) = 3 /\ frame[1] = ACK /\ frame[2] = rcv.sessionId
             /\ IF rcv.totalChunks > 0
                THEN /\ rcv'.state = TRANSFER
                     /\ rcv'.written = Append(rcv.written,
                                              <<PULL, rcv.sessionId, rcv.sequenceNumber, 0>>)
                ELSE /\ rcv'.state = DONE
                     /\ rcv'.written = rcv.written]_vars

C25_Witness ==
    /\ rcv.state = TRANSFER
    /\ used.inject = 1
    /\ \E k \in 1..Len(rcv.errors) : rcv.errors[k].msg = "Unsupported protocol version"
    /\ rcv.written[Len(rcv.written)] = <<PULL, rcv.sessionId, rcv.sequenceNumber - 1, 0>>

\* ---------------------------------------------------------------------------
\* The transfer with an ACK for the sender's session, for another and for the
\* empty session id reaching the sender in whatever state it is in.

AckFrames == {<<ACK, sessionId, 200>> : sessionId \in {TheSessionId, WrongSessionId, <<>>}}

AckToSender ==
    /\ snd.reading
    /\ used.inject < MaxInject
    /\ \E frame \in AckFrames : snd' = SenderHandleMessage(snd, frame)
    /\ used' = [used EXCEPT !.inject = @ + 1]
    /\ UNCHANGED <<rcv, rcv2, delivered, store, calls, codec>>

NextAck == Step \/ AckToSender

SpecAck == Init /\ [][NextAck]_vars

\* The step is the sender's handleMessage for `frame`.
SenderHandles(frame) ==
    \/ /\ delivered'.S = delivered.S + 1
       /\ frame = rcv.written[delivered'.S]
    \/ /\ used'.inject = used.inject + 1
       /\ snd' = SenderHandleMessage(snd, frame)

FramesToSender == AckFrames \cup {rcv.written[k] : k \in 1..Len(rcv.written)}

IsAck(frame) == Len(frame) = 3 /\ frame[1] = ACK

EventCount(events, event) == Cardinality({k \in 1..Len(events) : events[k] = event})

DataFrames ==
    {<<DATA, sessionId, 300, chunkIndex, nextChunkIndex, data>> :
         sessionId \in {TheSessionId, WrongSessionId},
         chunkIndex \in {-1, 0, 1, MaxFileLen},
         nextChunkIndex \in {-1, 1},
         data \in {<<>>, <<0>>}}

DataToReceiver ==
    /\ rcv.reading
    /\ used.inject < MaxInject
    /\ \E frame \in DataFrames : rcv' = ReceiverHandleMessage(rcv, frame)
    /\ used' = [used EXCEPT !.inject = @ + 1]
    /\ UNCHANGED <<snd, rcv2, delivered, store, calls, codec>>

NextData == Step \/ DataToReceiver

SpecData == Init /\ [][NextData]_vars

RECURSIVE StoredLength(_, _)
StoredLength(chunks, indexes) ==
    IF indexes = {} THEN 0
    ELSE LET i == CHOOSE i \in indexes : TRUE
         IN  Len(chunks[i]) + StoredLength(chunks, indexes \ {i})

\* C27: whenever the receiver is DONE its chunk table has every index of
\* [0, totalChunks) and the stored chunks add up to the fileSize of HELLO.
C27_DoneIsComplete ==
    rcv.state = DONE
    => /\ \A i \in 0..(rcv.totalChunks - 1) : i \in DOMAIN rcv.chunks
       /\ StoredLength(rcv.chunks, DOMAIN rcv.chunks) = rcv.fileSize

\* The step is the receiver's handleMessage for `frame` (a step of SpecData).
ReceiverHandlesData(frame) ==
    /\ Len(frame) = 6 /\ frame[1] = DATA
    /\ \/ /\ delivered'.R = delivered.R + 1
          /\ frame = snd.written[delivered'.R]
       \/ /\ used'.inject = used.inject + 1
          /\ rcv' = ReceiverHandleMessage(rcv, frame)

DataToReceiverFrames == DataFrames \cup {snd.written[k] : k \in 1..Len(snd.written)}

SameDataAgain ==
    /\ rcv.state = TRANSFER
    /\ used'.dup = used.dup + 1
    /\ rcv' # rcv
    /\ delivered.R > 0
    /\ snd.written[delivered.R][1] = DATA
    /\ snd.written[delivered.R][4] \in DOMAIN rcv.chunks

\* C29: a valid DATA handled a second time in TRANSFER leaves the chunk
\* table as it was after the first time: the same indexes, and the same
\* payload under each.
C29_SameDataTwice ==
    [][SameDataAgain
       => /\ DOMAIN rcv'.chunks = DOMAIN rcv.chunks
          /\ \A i \in DOMAIN rcv.chunks : rcv'.chunks[i] = rcv.chunks[i]
          /\ rcv.chunks[snd.written[delivered.R][4]] = snd.written[delivered.R][6]]_vars

C29_Witness ==
    /\ used.dup = 1
    /\ rcv.state = TRANSFER
    /\ EventCount(rcv.events, "chunk") = 2
    /\ DOMAIN rcv.chunks = {0}
    /\ snd.written[delivered.R][1] = DATA

\* ---------------------------------------------------------------------------
\* The transfer with a frame of any type reaching an engine that is DONE:
\* the Reader keeps calling the callback it was given, stopListening only
\* clears a flag.

LateFrames ==
    {ForeignFrames[k] : k \in 1..Len(ForeignFrames)}
    \cup HandshakeFrames \cup AckFrames \cup DataFrames
    \cup {<<PULL, TheSessionId, 400, chunkIndex>> : chunkIndex \in PullIndexes}

LateToSender ==
    /\ snd.reading
    /\ snd.state = DONE
    /\ used.inject < MaxInject
    /\ \E frame \in LateFrames : snd' = SenderHandleMessage(snd, frame)
    /\ used' = [used EXCEPT !.inject = @ + 1]
    /\ UNCHANGED <<rcv, rcv2, delivered, store, calls, codec>>

LateToReceiver ==
    /\ rcv.reading
    /\ rcv.state = DONE
    /\ used.inject < MaxInject
    /\ \E frame \in LateFrames : rcv' = ReceiverHandleMessage(rcv, frame)
    /\ used' = [used EXCEPT !.inject = @ + 1]
    /\ UNCHANGED <<snd, rcv2, delivered, store, calls, codec>>

NextLate == Step \/ LateToSender \/ LateToReceiver

SpecLate == Init /\ [][NextLate]_vars

RECURSIVE SequenceNumbers(_)
SequenceNumbers(written) ==
    IF written = <<>> THEN <<>>
    ELSE LET frame == written[Len(written)]
             before == SequenceNumbers(SubSeq(written, 1, Len(written) - 1))
         IN  IF frame[1] = ERROR THEN before ELSE Append(before, frame[3])

\* The numbers rise by one from frame to frame, and the engine's local
\* sequence number is the one after the last.
Numbered(engine) ==
    LET numbers == SequenceNumbers(engine.written)
    IN  /\ \A k \in 1..(Len(numbers) - 1) : numbers[k + 1] = numbers[k] + 1
        /\ numbers # <<>> => engine.sequenceNumber = numbers[Len(numbers)] + 1

\* C31: every HELLO, ACK, PULL and DATA an engine writes carries its local
\* sequence number, which is then incremented: in the order the frames are
\* handed to the Writer the numbers rise by exactly one, whatever the
\* interleaving of the handlers.
C31_SequenceNumbers == Numbered(snd) /\ Numbered(rcv)

C31_Witness ==
    /\ used.dup = 1
    /\ Len(SequenceNumbers(rcv.written)) = 4
    /\ Len(SequenceNumbers(snd.written)) = 4
    /\ rcv.state = TRANSFER

\* ---------------------------------------------------------------------------
\* The HELLO of the sender's session (the first frame it writes), and the
\* DATA frames it has written for a chunk index.
SessionHello == snd.written[1]

DataWritten(chunkIndex) ==
    {k \in 1..Len(snd.written) :
        snd.written[k][1] = DATA /\ snd.written[k][4] = chunkIndex}

RECURSIVE PayloadTotal(_)
PayloadTotal(chunkIndexes) ==
    IF chunkIndexes = {} THEN 0
    ELSE LET i == CHOOSE i \in chunkIndexes : TRUE
             k == CHOOSE k \in DataWritten(i) : TRUE
         IN  Len(snd.written[k][6]) + PayloadTotal(chunkIndexes \ {i})

\* C32: in a session started by send() or by sendResumable(), every DATA the
\* sender writes with next_chunk_index other than -1 has as many payload
\* bytes as the chunk_size of the session's HELLO, and once DATA(0) to
\* DATA(total_chunks - 1) are written their payload lengths add up to the
\* file_size of that HELLO.
C32_AnnouncedSizes ==
    snd.written # <<>>
    => /\ \A k \in 1..Len(snd.written) :
             (snd.written[k][1] = DATA /\ snd.written[k][5] # -1)
             => Len(snd.written[k][6]) = SessionHello[10]
       /\ (\A i \in 0..(SessionHello[9] - 1) : DataWritten(i) # {})
          => PayloadTotal(0..(SessionHello[9] - 1)) = SessionHello[7]

\* ---------------------------------------------------------------------------
\* The transfer with a ChunkStore whose operations succeed: storeFileChunks
\* resolves with the entry written and deleteFileChunks with it deleted.

SendStoredDone ==
    /\ snd.pc = "storing"
    /\ snd' = SenderSendStored(snd)
    /\ store' = storeFileChunks(store, snd.fileName, snd.fileSize, snd.mimeType, snd.chunks)
    /\ UNCHANGED <<codec, calls, rcv2, rcv, delivered, used>>

StoredChunksDeletedDone ==
    /\ snd.cleanups > 0
    /\ snd' = [snd EXCEPT !.cleanups = @ - 1]
    /\ store' = deleteFileChunks(store, snd.fileName)
    /\ UNCHANGED <<codec, calls, rcv2, rcv, delivered, used>>

NextStoring ==
    \/ Send \/ SendChunked \/ SendStoredDone \/ SendSaved \/ Receive
    \/ DeliverToReceiver \/ DeliverToSender
    \/ SenderAckWritten \/ SenderLastDataWritten \/ StoredChunksDeletedDone
    \/ ReceiverAckWritten

SpecStoring == Init /\ [][NextStoring]_vars

PendingStoring ==
    \/ SendChunked \/ SendStoredDone \/ SendSaved
    \/ DeliverToReceiver \/ DeliverToSender
    \/ SenderAckWritten \/ SenderLastDataWritten \/ StoredChunksDeletedDone
    \/ ReceiverAckWritten

FairSpecStoring == SpecStoring /\ WF_vars(PendingStoring)

ChunksStored == snd.fileName \in DOMAIN store.files

\* C33: in send() the ChunkStore entry of the file is there when HELLO is
\* handed to the Writer, and once the sender is DONE the entry is eventually
\* deleted (the store operations succeeding).
C33_StoredThenDeleted ==
    /\ [][(snd.written = <<>> /\ snd'.written # <<>>)
          => /\ snd'.written[1][1] = HELLO
             /\ ChunksStored
             /\ store.files[snd.fileName].chunks = snd.chunks]_vars
    /\ (snd.state = DONE) ~> (snd.state = DONE /\ ~ChunksStored)

C33_Witness ==
    /\ snd.state = DONE
    /\ snd.cleanups = 0
    /\ ~ChunksStored
    /\ Len(snd.chunks) = 2

\* storeFileChunks failed in this send(): the store was empty before, and
\* the entry is deleted only when the sender is DONE.
StoreFailed == snd.pc \in {"saving", "started"} /\ snd.state # DONE /\ ~ChunksStored

\* deleteFileChunks failed at completion: nothing more is requested and the
\* entry is still there.
DeleteFailed == snd.state = DONE /\ snd.cleanups = 0 /\ ChunksStored

\* C34: a failure of storeFileChunks or of the session save in send(), or of
\* deleteFileChunks at completion, is not fatal: send() is not rejected, the
\* sender still enters HANDSHAKE and writes HELLO, and with a receiver
\* listening the transfer still reaches DONE and send() resolves.
C34_StorageFailuresNotFatal ==
    /\ [](snd.promise # "rejected")
    /\ [][snd.pc = "saving" /\ snd'.pc # "saving"
          => /\ snd'.state = HANDSHAKE
             /\ Len(snd'.written) = 1 /\ snd'.written[1][1] = HELLO
             /\ snd'.promise = "pending"]_vars
    /\ (StoreFailed /\ rcv.reading) ~> (snd.state = DONE /\ snd.promise = "resolved")
    /\ [](DeleteFailed => snd.promise = "resolved")

C34_Witness ==
    /\ DeleteFailed
    /\ snd.promise = "resolved"
    /\ rcv.state = DONE

\* ---------------------------------------------------------------------------
\* The store's callers, with cleanupOldFiles called with options: a maximum
\* age of no time or of the default, and at most 0, 1 or 2 entries.

EvictAges == {0, MaxAgeTicks}

EvictLimits == 0..2

CleanupOldFilesWith ==
    /\ Len(calls) < MaxCalls
    /\ \E maxAgeMs \in EvictAges, maxFiles \in EvictLimits :
          LET out == cleanupOldFiles(store, maxAgeMs, maxFiles)
          IN  /\ store' = out.db
              /\ calls' = Append(calls, Call("evict",
                                             [maxAgeMs |-> maxAgeMs, maxFiles |-> maxFiles],
                                             "done", out.result))
    /\ UNCHANGED <<codec, snd, rcv, rcv2, delivered, used>>

NextEvict == NextStore \/ CleanupOldFilesWith

SpecEvict == Init /\ [][NextEvict]_vars

\* What evict(options) has done, between the store `before` and `after` it.
Evicted(before, after, options, result) ==
    LET names == DOMAIN before.files
        kept == DOMAIN after.files
        removed == names \ kept
        tooOld == {name \in names :
                      before.files[name].lastAccessedAt < before.now - options.maxAgeMs}
        inTime == names \ tooOld
        excess == IF Cardinality(inTime) > options.maxFiles
                  THEN Cardinality(inTime) - options.maxFiles ELSE 0
    IN  /\ kept \subseteq names
        /\ kept \cap tooOld = {}
        /\ Cardinality(kept) <= options.maxFiles
        /\ \A gone \in removed \ tooOld, name \in kept :
              before.files[gone].lastAccessedAt <= before.files[name].lastAccessedAt
        /\ Cardinality(removed \ tooOld) = excess
        /\ \A name \in kept : after.files[name] = before.files[name]
        /\ result = Cardinality(removed)

\* C35: after evict({max_age_ms, max_entries}) no entry is left that was
\* last accessed before now - max_age_ms; at most max_entries are left, the
\* ones removed for that limit being the least recently accessed; the other
\* entries are unchanged; and the number returned is the number deleted.
C35_Evict ==
    [][(Len(calls') = Len(calls) + 1 /\ "maxFiles" \in DOMAIN calls'[Len(calls')].args)
       => Evicted(store, store', calls'[Len(calls')].args, calls'[Len(calls')].result)]_vars

\* The receiver has accepted a HELLO: it has written the ACK that answers it.
HelloAccepted == \E k \in 1..Len(rcv.written) : rcv.written[k][1] = ACK

\* C36: the receiver is in TRANSFER or DONE, or receive() has resolved, only
\* if it has accepted a HELLO of a sender while in HANDSHAKE; an ACK handled
\* before any HELLO, whatever its session id, causes no transition.
C36_NoTransferWithoutHello ==
    (rcv.state \in {TRANSFER, DONE} \/ rcv.promise = "resolved") => HelloAccepted

\* C37: in one transfer the sender emits the done event at most once and
\* asks for the deletion of its stored chunks at most once, whatever frames
\* reach it, the final PULL handed to it twice while the first DATA write is
\* awaited included.
C37_DoneOnce ==
    /\ EventCount(snd.events, "done") <= 1
    /\ snd.cleanups <= 1

\* C38: the sender is DONE, or has asked for the deletion of its stored
\* chunks, only after it has written a DATA with the payload of every chunk
\* index in [0, total_chunks), whatever PULL frames it receives.
C38_DoneAfterAllData ==
    (snd.state = DONE \/ snd.cleanups > 0)
    => \A i \in 0..(Len(snd.chunks) - 1) :
          \E k \in DataWritten(i) : snd.written[k][6] = snd.chunks[i + 1]

\* ---------------------------------------------------------------------------
\* The transfer with a DATA frame for chunk 0 that names as the next chunk
\* any index: the end, an index in range, a negative one, one past the last.

NextChunkFrames ==
    {<<DATA, TheSessionId, 300, 0, nextChunkIndex, <<0>>>> :
         nextChunkIndex \in -2..MaxFileLen}

NextChunkToReceiver ==
    /\ rcv.reading
    /\ used.inject < MaxInject
    /\ \E frame \in NextChunkFrames : rcv' = ReceiverHandleMessage(rcv, frame)
    /\ used' = [used EXCEPT !.inject = @ + 1]
    /\ UNCHANGED <<snd, rcv2, delivered, store, calls, codec>>

NextNextChunk == Step \/ NextChunkToReceiver

SpecNextChunk == Init /\ [][NextNextChunk]_vars

\* The step is the receiver in TRANSFER accepting a DATA: it emits the chunk
\* event.
DataAccepted ==
    /\ rcv.state = TRANSFER
    /\ EventCount(rcv'.events, "chunk") = EventCount(rcv.events, "chunk") + 1

\* C39: every PULL the receiver writes carries a chunk index in
\* [0, total_chunks), and on accepting a DATA in TRANSFER the receiver
\* either completes or writes a PULL, whatever next_chunk_index the DATA
\* carries.
C39_PullInRange ==
    /\ [](\A k \in 1..Len(rcv.written) :
             rcv.written[k][1] = PULL
             => rcv.written[k][4] >= 0 /\ rcv.written[k][4] < rcv.totalChunks)
    /\ [][DataAccepted
          => \/ rcv'.state = DONE
             \/ /\ Len(rcv'.written) = Len(rcv.written) + 1
                /\ rcv'.written[Len(rcv'.written)][1] = PULL]_vars

\* ---------------------------------------------------------------------------
\* A Reader that holds frames when read() is called hands them to onData
\* within read(), as MockReader.processQueue does: the handlers run up to
\* their first await inside startListening, before startHandshake has made
\* its HELLO.  SenderStartHandshake is the case of a Reader that holds none.

RECURSIVE SenderHandleQueued(_, _)
SenderHandleQueued(s, queued) ==
    IF queued = <<>> THEN s
    ELSE SenderHandleQueued(SenderHandleMessage(s, Head(queued)), Tail(queued))

SenderStartHandshakeQueued(s, queued) ==
    LET s1 == SenderHandleQueued(SenderStartListening([s EXCEPT !.state = HANDSHAKE]), queued)
        fileName == IF s1.isResumedSession THEN s1.fileName ELSE s1.file.name
        fileSize == IF s1.isResumedSession THEN s1.fileSize ELSE FileSize(s1.file)
        mimeType == IF s1.isResumedSession THEN s1.mimeType
                    ELSE IF s1.file.type = "" THEN DefaultMimeType ELSE s1.file.type
        helloMessage == createHelloMessage(s1.sessionId, s1.sequenceNumber, SENDER, V0,
                                           fileName, fileSize, mimeType,
                                           Len(s1.chunks), s1.chunkSize)
    IN  SenderSendMessage([s1 EXCEPT !.sequenceNumber = @ + 1], helloMessage)

\* send(): after saveSenderSession, with a Reader that holds one frame.
SendSavedQueued ==
    /\ snd.pc = "saving"
    /\ \E frame \in AckFrames :
          snd' = SenderStartHandshakeQueued(
                     [snd EXCEPT !.hasCallbacks = TRUE, !.owner = 1, !.pc = "started"],
                     <<frame>>)
    /\ UNCHANGED <<codec, calls, rcv2, rcv, delivered, store, used>>

NextQueued == Step \/ SendSavedQueued

SpecQueued == Init /\ [][NextQueued]_vars

\* C40: the first frame the sender writes in a session is HELLO, and it does
\* not leave HANDSHAKE before HELLO is handed to the Writer, even when the
\* Reader delivers a frame as soon as the sender starts listening.
C40_HelloFirst ==
    /\ snd.written # <<>> => snd.written[1][1] = HELLO
    /\ snd.state \in {TRANSFER, DONE} => snd.written # <<>>

====
